---------------------------- MODULE Spec2Model ----------------------------
(***************************************************************************)
(* Model of the retrieval pipeline of zonelcpilot:                         *)
(*   rag/chunker.py   OrdinanceChunker  (chunk_by_sections, merge)         *)
(*   rag/cache.py     QueryCache        (normalize_query, check_cache)     *)
(*   query_engine.py  ZoningQueryEngine (answer_question)                  *)
(* Each component has its own specification (SpecChunk, SpecMerge, ...);   *)
(* the variables of the other components rest at their idle value.         *)
(***************************************************************************)
EXTENDS Integers, Sequences, FiniteSets, TLC

VARIABLES
    \* ---- OrdinanceChunker.chunk_by_sections (chunker.py 41-128)
    lines,            \* the document lines read so far, in order
    max_tokens,       \* the max_tokens argument
    chunks,           \* chunks
    current_section,  \* current_section (NoSection models None)
    current_article,  \* current_article (0 models None)
    current_chunk,    \* current_chunk: the buffered lines
    current_tokens,   \* current_tokens
    cpc               \* "loop" inside the for loop, "done" after return

chunkVars == <<lines, max_tokens, chunks, current_section, current_article,
               current_chunk, current_tokens, cpc>>

VARIABLES
    \* ---- OrdinanceChunker.merge_related_chunks (chunker.py 157-192)
    in_chunks,        \* the chunks argument
    merged,           \* merged
    i,                \* i, as a 1-based index
    mpc               \* "loop" inside the while loop, "done" after return

mergeVars == <<in_chunks, merged, i, mpc>>

VARIABLES
    \* ---- QueryCache.normalize_query applied twice (cache.py 257-269)
    query,            \* the query argument
    normalized,       \* normalize_query(query)
    renormalized,     \* normalize_query(normalize_query(query))
    npc               \* "start", "once", "twice"

normVars == <<query, normalized, renormalized, npc>>

VARIABLES
    \* ---- QueryCache.is_similar_query (cache.py 297-313)
    query1,           \* the query1 argument
    query2,           \* the query2 argument
    similar,          \* the value returned
    spc               \* "start", "done"

simVars == <<query1, query2, similar, spc>>

VARIABLES
    \* ---- QueryCache (cache.py 11-14, 315-335)
    cache,            \* self.cache: the dynamic table, keyed by get_cache_key
    store             \* the file self.cache_file

cacheVars == <<cache, store>>

VARIABLES
    \* ---- ZoningQueryEngine.answer_question (query_engine.py 84-152)
    question,         \* the question argument
    county,           \* the county argument
    cached_answer,    \* cached_answer: what check_cache returned
    query_variations, \* query_variations
    searched,         \* how many of queries[:3] have been searched
    all_results,      \* all_results of search_multiple_queries, in insertion order
    seen_chunks,      \* seen_chunks of search_multiple_queries
    searches,         \* the query arguments of the calls of search, in order
    found,            \* chunks of answer_question
    result,           \* what the last invocation returned or raised
    calls,            \* the external calls of the current invocation, in order
    epc,              \* where the current invocation stands
    asks              \* invocations started so far

engineVars == <<question, county, cached_answer, query_variations, searched,
                all_results, seen_chunks, searches, found, result, calls, epc, asks>>

VARIABLES
    \* ---- AnswerFormatter.format_answer (templates.py 88-98, 274-308)
    fmt_question,     \* the question argument
    fmt_answer,       \* the answer argument, the raw text
    fmt_citations,    \* the citations argument
    fmt_type,         \* what detect_template_type returned
    fmt_text,         \* what format_answer returned
    fpc               \* where the call stands

fmtVars == <<fmt_question, fmt_answer, fmt_citations, fmt_type, fmt_text, fpc>>

VARIABLES
    \* ---- a second QueryCache on the same file (cache.py 11-14, 315-335)
    peer_cache,       \* its self.cache
    peer_pc           \* whether it is constructed

peerVars == <<peer_cache, peer_pc>>

vars == <<chunkVars, mergeVars, normVars, simVars, cacheVars, engineVars,
          fmtVars, peerVars>>

-----------------------------------------------------------------------------
(* Generic helpers *)

Max(a, b) == IF a >= b THEN a ELSE b

SetMin(S) == CHOOSE x \in S : \A y \in S : x <= y

SetMax(S) == CHOOSE x \in S : \A y \in S : x >= y

-----------------------------------------------------------------------------
(***************************************************************************)
(* Text. A Python str is a sequence of one-character strings, so that      *)
(* lower, strip, replace, split and join are computed character by         *)
(* character.                                                              *)
(***************************************************************************)

Uppers == <<"A","B","C","D","E","F","G","H","I","J","K","L","M","N","O","P","Q","R","S","T","U","V","W","X","Y","Z">>

Lowers == <<"a","b","c","d","e","f","g","h","i","j","k","l","m","n","o","p","q","r","s","t","u","v","w","x","y","z">>

\* str.lower on one character
LowerChar(c) ==
    IF \E n \in 1..26 : Uppers[n] = c
    THEN Lowers[CHOOSE n \in 1..26 : Uppers[n] = c]
    ELSE c

\* str.lower
StrLower(s) == [n \in 1..Len(s) |-> LowerChar(s[n])]

\* str.upper, used to build inputs
StrUpper(s) ==
    [n \in 1..Len(s) |->
        IF \E m \in 1..26 : Lowers[m] = s[n]
        THEN Uppers[CHOOSE m \in 1..26 : Lowers[m] = s[n]]
        ELSE s[n]]

\* str.capitalize on a lower-case string, used to build inputs
StrCapitalize(s) ==
    IF s = <<>> THEN s ELSE StrUpper(SubSeq(s, 1, 1)) \o SubSeq(s, 2, Len(s))

Whitespace == {" ", "\t", "\n"}

\* str.strip()
StrStrip(s) ==
    LET solid == {n \in 1..Len(s) : s[n] \notin Whitespace}
    IN  IF solid = {} THEN <<>> ELSE SubSeq(s, SetMin(solid), SetMax(solid))

\* str.replace(c, '')
StrRemove(s, c) == SelectSeq(s, LAMBDA x : x # c)

\* str.split(): the maximal runs of non-whitespace characters, in order
StrSplit(s) ==
    LET starts == {n \in 1..Len(s) :
                      s[n] \notin Whitespace /\ (n = 1 \/ s[n - 1] \in Whitespace)}
        EndOf(n) == SetMin({m \in n..Len(s) :
                      m = Len(s) \/ s[m + 1] \in Whitespace})
        Start(k) == CHOOSE n \in starts : Cardinality({m \in starts : m < n}) = k - 1
    IN  [k \in 1..Cardinality(starts) |-> SubSeq(s, Start(k), EndOf(Start(k)))]

RECURSIVE JoinFrom(_, _, _)
JoinFrom(sep, words, n) ==
    IF n > Len(words) THEN <<>>
    ELSE IF n = Len(words) THEN words[n]
    ELSE words[n] \o sep \o JoinFrom(sep, words, n + 1)

\* sep.join(words)
StrJoin(sep, words) == JoinFrom(sep, words, 1)

\* ' '.join(words)
Words(words) == StrJoin(<<" ">>, words)

Range(s) == {s[x] : x \in 1..Len(s)}

-----------------------------------------------------------------------------
(***************************************************************************)
(* OrdinanceChunker.chunk_by_sections                                      *)
(*                                                                         *)
(* A line is modelled by what the loop reads of it:                        *)
(*   sec   the label matched by section_pattern (0: no match)              *)
(*   art   the number matched by article_pattern (0: no match)             *)
(*   tok   len(encoding.encode(line))                                      *)
(*   stok  len(encoding.encode(line.strip())), used when the header is     *)
(*         re-inserted after an overflow flush                             *)
(* The for loop consumes the document one line at a time, so the document  *)
(* is drawn line by line: ReadLine is one iteration on the next line, and  *)
(* EndOfInput is the code after the loop.                                  *)
(***************************************************************************)

\* bound: number of lines of a document
MaxLines == 5

\* the minimum chunk size tested at a section header (chunker.py 61)
MinChunk == 100

\* token counts of ordinary lines: an empty line, a short one, lines at and
\* just over the floor
TextTokens == {0, 60, 100, 101}

TextLines == {[sec |-> 0, art |-> 0, tok |-> t, stok |-> t] : t \in TextTokens}

\* "Article 1" alone on a line: matched by article_pattern only
ArticleLines == {[sec |-> 0, art |-> 1, tok |-> 3, stok |-> 3]}

\* "Section 1-1 ..." and an indented "  Article 2 Section 2-1 ..."
SectionLines == {[sec |-> 1, art |-> 0, tok |-> 5, stok |-> 5],
                 [sec |-> 2, art |-> 2, tok |-> 6, stok |-> 5]}

Lines == TextLines \cup ArticleLines \cup SectionLines

\* the max_tokens arguments tried
MaxTokensArgs == {100, 150}

\* current_section is None or the stripped header line
NoSection == [sec |-> 0, stok |-> 0]

\* the dict appended to chunks. items lists the lines of the chunk: i > 0 is
\* line i of the document, 0 is the header re-inserted at line 103. flush
\* records which of the three append sites built the chunk.
MakeChunk(site, article) ==
    [items   |-> current_chunk,
     section |-> current_section.sec,
     article |-> article,
     tokens  |-> current_tokens,
     flush   |-> site]

SectionFlushTestInclusive == current_chunk # <<>> /\ current_tokens >= MinChunk

\* line 61: the test guarding the flush at a section header
SectionFlushTest == current_chunk # <<>> /\ current_tokens > MinChunk

\* line 85: the test guarding the overflow flush
OverflowTest(line) ==
    current_tokens + line.tok > max_tokens /\ current_chunk # <<>>

\* lines 102-107: the buffer started after an overflow flush
Reseed(line, idx) ==
    IF current_section # NoSection
    THEN [chunk |-> <<0, idx>>, tokens |-> current_section.stok + line.tok]
    ELSE [chunk |-> <<idx>>, tokens |-> line.tok]

IdleChunk ==
    /\ lines = <<>>
    /\ max_tokens = 0
    /\ chunks = <<>>
    /\ current_section = NoSection
    /\ current_article = 0
    /\ current_chunk = <<>>
    /\ current_tokens = 0
    /\ cpc = "idle"

IdleMerge ==
    /\ in_chunks = <<>>
    /\ merged = <<>>
    /\ i = 0
    /\ mpc = "idle"

IdleNorm ==
    /\ query = <<>>
    /\ normalized = <<>>
    /\ renormalized = <<>>
    /\ npc = "idle"

IdleSim ==
    /\ query1 = <<>>
    /\ query2 = <<>>
    /\ similar = FALSE
    /\ spc = "idle"

\* an answer text, by what it is rendered from: a curated answer (kind
\* "curated", id the place in the table), the rendering of a curated entry's
\* details ("details"), a formatted generated answer ("formatted", id the
\* raw answer) or the fixed text of the no-knowledge return
NoAnswer == [kind |-> "none", id |-> 0, template |-> "", refs |-> <<>>]

\* None, as returned by check_cache
NoEntry ==
    [kind |-> "none", id |-> 0, template_type |-> "", has_details |-> FALSE,
     reference |-> "", answer |-> NoAnswer]

\* nothing returned (yet)
NoResult ==
    [status |-> "none", question |-> <<>>, answer |-> NoAnswer,
     citations |-> <<>>, county |-> "", cached |-> "absent",
     chunks_searched |-> -1]

\* no QueryCache and no ZoningQueryEngine constructed
IdleEngine ==
    /\ cache = <<>>
    /\ store = [state |-> "absent", content |-> <<>>]
    /\ question = <<>>
    /\ county = ""
    /\ cached_answer = NoEntry
    /\ query_variations = <<>>
    /\ searched = 0
    /\ all_results = <<>>
    /\ seen_chunks = {}
    /\ searches = <<>>
    /\ found = <<>>
    /\ result = NoResult
    /\ calls = <<>>
    /\ epc = "unused"
    /\ asks = 0

\* format_answer not called
IdleFmt ==
    /\ fmt_question = <<>>
    /\ fmt_answer = <<>>
    /\ fmt_citations = <<>>
    /\ fmt_type = ""
    /\ fmt_text = [status |-> "none", form |-> "", text |-> <<>>]
    /\ fpc = "idle"

\* no second QueryCache
IdlePeer ==
    /\ peer_cache = <<>>
    /\ peer_pc = "none"

InitChunk ==
    /\ IdleMerge /\ IdleNorm /\ IdleSim /\ IdleEngine /\ IdleFmt /\ IdlePeer
    /\ lines = <<>>
    /\ max_tokens \in MaxTokensArgs
    /\ chunks = <<>>
    /\ current_section = NoSection
    /\ current_article = 0
    /\ current_chunk = <<>>
    /\ current_tokens = 0
    /\ cpc = "loop"

\* one iteration of the for loop (lines 51-110) on a section header
ReadSectionLine(line) ==
    LET idx == Len(lines) + 1 IN
    /\ cpc = "loop"
    /\ Len(lines) < MaxLines
    /\ line.sec # 0
    /\ lines' = Append(lines, line)
    /\ current_article' = IF line.art # 0 THEN line.art ELSE current_article
    /\ chunks' = IF SectionFlushTest
                 THEN Append(chunks, MakeChunk("section", current_article'))
                 ELSE chunks
    /\ current_section' = [sec |-> line.sec, stok |-> line.stok]
    /\ current_chunk' = <<idx>>
    /\ current_tokens' = line.tok
    /\ UNCHANGED <<max_tokens, cpc, mergeVars, normVars, simVars, cacheVars, engineVars,
                   fmtVars, peerVars>>

\* one iteration of the for loop (lines 51-110) on any other line
ReadOtherLine(line) ==
    LET idx == Len(lines) + 1 IN
    /\ cpc = "loop"
    /\ Len(lines) < MaxLines
    /\ line.sec = 0
    /\ lines' = Append(lines, line)
    /\ current_article' = IF line.art # 0 THEN line.art ELSE current_article
    /\ IF OverflowTest(line)
       THEN /\ chunks' = Append(chunks, MakeChunk("overflow", current_article'))
            /\ current_chunk' = Reseed(line, idx).chunk
            /\ current_tokens' = Reseed(line, idx).tokens
       ELSE /\ chunks' = chunks
            /\ current_chunk' = Append(current_chunk, idx)
            /\ current_tokens' = current_tokens + line.tok
    /\ UNCHANGED <<max_tokens, current_section, cpc, mergeVars, normVars, simVars, cacheVars, engineVars,
                   fmtVars, peerVars>>

\* lines 112-128: the last chunk and the return. text.split('\n') yields at
\* least one line, so the loop has run at least once.
EndOfInput ==
    /\ cpc = "loop"
    /\ Len(lines) >= 1
    /\ chunks' = IF current_chunk # <<>>
                 THEN Append(chunks, MakeChunk("end", current_article))
                 ELSE chunks
    /\ cpc' = "done"
    /\ UNCHANGED <<lines, max_tokens, current_section, current_article,
                   current_chunk, current_tokens, mergeVars,
                   normVars, simVars, cacheVars, engineVars,
                   fmtVars, peerVars>>

NextChunk ==
    \/ \E line \in Lines : ReadSectionLine(line)
    \/ \E line \in Lines : ReadOtherLine(line)
    \/ EndOfInput

SpecChunk == InitChunk /\ [][NextChunk]_vars

-----------------------------------------------------------------------------
(* Properties of chunk_by_sections *)

\* the document lines a chunk holds (the re-inserted header, item 0, is no
\* document line)
ChunkLines(chunk) == {n \in Range(chunk.items) : n > 0}

\* C1: chunk coverage. When chunk_by_sections has returned, every line of
\* the document is in at least one returned chunk.
ChunkCoverage ==
    cpc = "done" =>
        \A n \in 1..Len(lines) :
            \E k \in 1..Len(chunks) : n \in ChunkLines(chunks[k])

\* C2: token bound. Every chunk has at most max_tokens tokens, unless it
\* holds a line that alone has more than max_tokens tokens.
TokenBound ==
    \A k \in 1..Len(chunks) :
        \/ chunks[k].tokens <= max_tokens
        \/ \E n \in ChunkLines(chunks[k]) : lines[n].tok > max_tokens

\* C3: minimum-size floor. A chunk appended at a section header has more
\* than 100 tokens; chunks of 100 tokens or fewer come only from the
\* overflow flush or the end-of-input flush.
MinimumSizeFloor ==
    \A k \in 1..Len(chunks) :
        /\ chunks[k].flush = "section" => chunks[k].tokens > MinChunk
        /\ chunks[k].tokens <= MinChunk => chunks[k].flush \in {"overflow", "end"}

\* a section-boundary flush happened, and before another header a buffer of
\* exactly 100 tokens was dropped instead of flushed
MinimumSizeFloorWitness ==
    /\ \E k \in 1..Len(chunks) : chunks[k].flush = "section"
    /\ \E n \in 1..Len(lines) :
          /\ lines[n].tok = MinChunk
          /\ n + 1 \in 1..Len(lines)
          /\ lines[n + 1].sec # 0
          /\ \A k \in 1..Len(chunks) : n \notin ChunkLines(chunks[k])
          /\ n \notin Range(current_chunk)

-----------------------------------------------------------------------------
(***************************************************************************)
(* OrdinanceChunker.merge_related_chunks                                   *)
(*                                                                         *)
(* An input chunk is modelled by its section label (0 models None) and its *)
(* token count. An output chunk lists in parts the input chunks whose text *)
(* it holds, in order. MergeStep is one iteration of the while loop.       *)
(***************************************************************************)

\* bound: number of chunks handed to merge_related_chunks
MaxChunks == 3

\* the limit on the combined size of a merged pair (chunker.py 171)
MergeLimit == 1200

MergeSections == {0, 1, 2}

\* sums below, at and above the limit: 599 + 600, 600 + 600, 600 + 601
MergeTokens == {100, 599, 600, 601}

InputChunks == [section : MergeSections, tokens : MergeTokens]

ChunkLists == UNION {[1..n -> InputChunks] : n \in 0..MaxChunks}

ShouldMergeNoSection(current, next_chunk) ==
    current.tokens + next_chunk.tokens < MergeLimit

\* lines 170-171: the merge test
ShouldMerge(current, next_chunk) ==
    /\ current.section = next_chunk.section
    /\ current.tokens + next_chunk.tokens < MergeLimit

\* a merged chunk that keeps the text of the first chunk of the pair only
MergedChunkFirstOnly(k) ==
    [parts   |-> <<k>>,
     section |-> in_chunks[k].section,
     tokens  |-> in_chunks[k].tokens + in_chunks[k + 1].tokens]

\* lines 174-182: the merged chunk
MergedChunk(k) ==
    [parts   |-> <<k, k + 1>>,
     section |-> in_chunks[k].section,
     tokens  |-> in_chunks[k].tokens + in_chunks[k + 1].tokens]

\* lines 186, 189: an input chunk appended as it is
SameChunk(k) ==
    [parts   |-> <<k>>,
     section |-> in_chunks[k].section,
     tokens  |-> in_chunks[k].tokens]

InitMerge ==
    /\ IdleChunk /\ IdleNorm /\ IdleSim /\ IdleEngine /\ IdleFmt /\ IdlePeer
    /\ in_chunks \in ChunkLists
    /\ merged = <<>>
    /\ i = 1
    /\ mpc = "loop"

\* one iteration of the while loop (lines 162-190)
MergeStep ==
    /\ mpc = "loop"
    /\ i <= Len(in_chunks)
    /\ IF i + 1 <= Len(in_chunks) /\ ShouldMerge(in_chunks[i], in_chunks[i + 1])
       THEN /\ merged' = Append(merged, MergedChunk(i))
            /\ i' = i + 2
       ELSE /\ merged' = Append(merged, SameChunk(i))
            /\ i' = i + 1
    /\ UNCHANGED <<in_chunks, mpc, chunkVars, normVars, simVars, cacheVars, engineVars,
                   fmtVars, peerVars>>

\* line 192: the loop test fails and merged is returned
MergeReturn ==
    /\ mpc = "loop"
    /\ i > Len(in_chunks)
    /\ mpc' = "done"
    /\ UNCHANGED <<in_chunks, merged, i, chunkVars, normVars, simVars, cacheVars, engineVars,
                   fmtVars, peerVars>>

NextMerge == MergeStep \/ MergeReturn

SpecMerge == InitMerge /\ [][NextMerge]_vars

\* C4: merge safety. A chunk built by merging combines input chunks of one
\* section label, and its token count, the sum of theirs, is below 1200.
MergeSafety ==
    \A k \in 1..Len(merged) :
        Len(merged[k].parts) > 1 =>
            /\ \A p \in Range(merged[k].parts) :
                  in_chunks[p].section = merged[k].section
            /\ merged[k].tokens = in_chunks[merged[k].parts[1]].tokens
                                  + in_chunks[merged[k].parts[2]].tokens
            /\ merged[k].tokens < MergeLimit

\* a pair was merged with the largest sum the test lets through
MergeSafetyWitness ==
    /\ mpc = "done"
    /\ \E k \in 1..Len(merged) :
          /\ Len(merged[k].parts) = 2
          /\ merged[k].tokens = MergeLimit - 1

--------------------------------------------------------------
(* The words of the curated questions and of the key-term vocabulary *)

w_an == <<"a","n">>

w_at == <<"a","t">>

w_to == <<"t","o">>

w_can == <<"c","a","n">>

w_i == <<"i">>

w_build == <<"b","u","i","l","d">>

w_a == <<"a">>

w_shed == <<"s","h","e","d">>

w_the == <<"t","h","e">>

w_in == <<"i","n">>

w_is == <<"i","s">>

w_house == <<"h","o","u","s","e">>

w_building == <<"b","u","i","l","d","i","n","g">>

w_cow == <<"c","o","w">>

w_goat == <<"g","o","a","t">>

w_pig == <<"p","i","g">>

w_sheep == <<"s","h","e","e","p">>

w_bee == <<"b","e","e">>

w_poultry == <<"p","o","u","l","t","r","y">>

w_livestock == <<"l","i","v","e","s","t","o","c","k">>

w_regulations == <<"r","e","g","u","l","a","t","i","o","n","s">>

w_permitted == <<"p","e","r","m","i","t","t","e","d">>

w_uses == <<"u","s","e","s">>

w_deck == <<"d","e","c","k">>

w_what == <<"w","h","a","t">>

w_whats == <<"w","h","a","t","'","s">>

w_setback == <<"s","e","t","b","a","c","k">>

w_for == <<"f","o","r">>

w_barn == <<"b","a","r","n">>

w_how == <<"h","o","w">>

w_far == <<"f","a","r">>

w_from == <<"f","r","o","m">>

w_property == <<"p","r","o","p","e","r","t","y">>

w_line == <<"l","i","n","e">>

w_accessory == <<"a","c","c","e","s","s","o","r","y">>

w_structure == <<"s","t","r","u","c","t","u","r","e">>

w_do == <<"d","o">>

w_need == <<"n","e","e","d">>

w_permit == <<"p","e","r","m","i","t">>

w_chickens == <<"c","h","i","c","k","e","n","s">>

w_fence == <<"f","e","n","c","e">>

w_are == <<"a","r","e">>

w_horses == <<"h","o","r","s","e","s">>

w_allowed == <<"a","l","l","o","w","e","d">>

w_on == <<"o","n">>

w_2 == <<"2">>

w_acres == <<"a","c","r","e","s">>

w_have == <<"h","a","v","e">>

w_1 == <<"1">>

w_acre == <<"a","c","r","e">>

w_many == <<"m","a","n","y">>

w_maximum == <<"m","a","x","i","m","u","m">>

w_size == <<"s","i","z","e">>

w_without == <<"w","i","t","h","o","u","t">>

w_pool == <<"p","o","o","l">>

w_ar1 == <<"a","r","-","1">>

w_minimum == <<"m","i","n","i","m","u","m">>

w_lot == <<"l","o","t">>

w_run == <<"r","u","n">>

w_business == <<"b","u","s","i","n","e","s","s">>

w_home == <<"h","o","m","e">>

w_requirements == <<"r","e","q","u","i","r","e","m","e","n","t","s">>

w_garage == <<"g","a","r","a","g","e">>

w_height == <<"h","e","i","g","h","t">>

w_limit == <<"l","i","m","i","t">>

w_driveway == <<"d","r","i","v","e","w","a","y">>

w_beekeeping == <<"b","e","e","k","e","e","p","i","n","g">>

w_chicken == <<"c","h","i","c","k","e","n">>

w_horse == <<"h","o","r","s","e">>

-----------------------------------------------------------------------------
(***************************************************************************)
(* QueryCache.normalize_query                                              *)
(***************************************************************************)

\* line 265
filler_words == {w_the, w_a, w_an, w_is, w_are, w_in, w_on, w_at, w_to, w_for}

\* line 267: a query of at most this many words keeps its filler words
ShortQuery == 3

\* lines 261-262: the chain of replace calls
RemovePunctuation(s) ==
    StrRemove(StrRemove(StrRemove(StrRemove(StrRemove(s, "?"), "."), "!"), ","), ";")

\* normalize_query with the filler words dropped before the punctuation
normalize_query_filter_first(q) ==
    LET words == StrSplit(StrStrip(StrLower(q)))
        kept == SelectSeq(words,
                    LAMBDA w : w \notin filler_words \/ Len(words) <= ShortQuery)
    IN  Words(StrSplit(RemovePunctuation(Words(kept))))

\* lines 257-269
normalize_query(q) ==
    LET stripped == RemovePunctuation(StrStrip(StrLower(q)))
        words == StrSplit(stripped)
        kept == SelectSeq(words,
                    LAMBDA w : w \notin filler_words \/ Len(words) <= ShortQuery)
    IN  Words(kept)

\* bound: number of space-separated tokens of a drawn query
MaxWords == 4

\* the tokens queries are drawn from: filler words in both cases, words with
\* trailing and inner punctuation, a token of punctuation only
RawTokens == {<<"A">>, <<"t","h","e">>, <<"S","h","e","d","?">>, <<"b","u","i","l","d">>, <<"t",".","h","e">>, <<";",";">>}

CanIBuildAShed == <<"C","a","n"," ","I"," ","b","u","i","l","d"," ","a"," ","s","h","e","d","?">>

RECURSIVE TokenLists(_)
TokenLists(n) ==
    IF n = 0 THEN {<<>>}
    ELSE TokenLists(n - 1)
         \cup {Append(t, w) : t \in {u \in TokenLists(n - 1) : Len(u) = n - 1},
                               w \in RawTokens}

\* the drawn queries: tokens joined by one space, the concrete query of the
\* specification, and queries with outer and doubled whitespace
NormQueries ==
    {Words(t) : t \in TokenLists(MaxWords)}
    \cup {CanIBuildAShed}
    \cup {<<" ">> \o w \o <<" ", " ">> \o w \o <<"\n">> : w \in RawTokens}

InitNorm ==
    /\ IdleChunk /\ IdleMerge /\ IdleSim /\ IdleEngine /\ IdleFmt /\ IdlePeer
    /\ query \in NormQueries
    /\ normalized = <<>>
    /\ renormalized = <<>>
    /\ npc = "start"

\* normalize_query(query)
NormalizeOnce ==
    /\ npc = "start"
    /\ normalized' = normalize_query(query)
    /\ npc' = "once"
    /\ UNCHANGED <<query, renormalized, chunkVars, mergeVars, simVars, cacheVars,
                   engineVars,
                   fmtVars, peerVars>>

\* normalize_query applied to the normalized string
NormalizeTwice ==
    /\ npc = "once"
    /\ renormalized' = normalize_query(normalized)
    /\ npc' = "twice"
    /\ UNCHANGED <<query, normalized, chunkVars, mergeVars, simVars, cacheVars,
                   engineVars,
                   fmtVars, peerVars>>

NextNorm == NormalizeOnce \/ NormalizeTwice

SpecNorm == InitNorm /\ [][NextNorm]_vars

\* C5: normalization idempotence. Normalizing a normalized query returns
\* it unchanged, and "Can I build a shed?" normalizes to "can i build shed".
NormalizationIdempotent ==
    /\ npc = "twice" => renormalized = normalized
    /\ (npc # "start" /\ query = CanIBuildAShed) =>
          normalized = Words(<<w_can, w_i, w_build, w_shed>>)

\* a query of more than 3 words that loses filler words and keeps 3 words
\* or fewer has been normalized twice
NormalizationIdempotentWitness ==
    /\ npc = "twice"
    /\ Len(StrSplit(RemovePunctuation(StrLower(query)))) > ShortQuery
    /\ Len(StrSplit(normalized)) <= ShortQuery
    /\ Len(StrSplit(normalized)) >= 1
    /\ Len(StrSplit(normalized)) < Len(StrSplit(RemovePunctuation(StrLower(query))))

-----------------------------------------------------------------------------
(***************************************************************************)
(* QueryCache.is_similar_query                                             *)
(***************************************************************************)

w_property_line == Words(<<w_property, w_line>>)

\* lines 300-301
key_terms == {w_shed, w_barn, w_setback, w_permit, w_chicken, w_horse,
              w_fence, w_pool, w_ar1, w_acre, w_property_line, w_garage}

\* set(word for word in q.split() if word in key_terms)
QueryTerms(q) == {w \in Range(StrSplit(q)) : w \in key_terms}

\* line 310 with > for >=
RatioAcceptedStrict(overlap, total) == total > 0 /\ 10 * overlap > 7 * total

\* line 310: total > 0 and overlap / total >= 0.7. The quotient of two
\* integers up to 12 is the double nearest to the ratio, and 0.7 is the
\* double nearest to 7/10, so the comparison of doubles agrees with the
\* comparison of the ratios.
RatioAccepted(overlap, total) == total > 0 /\ 10 * overlap >= 7 * total

\* lines 297-313
is_similar_query(q1, q2) ==
    LET query1_terms == QueryTerms(q1)
        query2_terms == QueryTerms(q2)
    IN  IF query1_terms # {} /\ query2_terms # {}
        THEN RatioAccepted(Cardinality(query1_terms \cap query2_terms),
                           Cardinality(query1_terms \cup query2_terms))
        ELSE FALSE

\* the words the compared strings are cut from: the one-word key terms, the
\* two words of "property line", and words outside the vocabulary
SimWords == <<w_can, w_shed, w_barn, w_setback, w_permit, w_chicken, w_horse,
              w_fence, w_pool, w_ar1, w_acre, w_garage, w_property, w_line,
              w_chickens>>

\* every run of consecutive words of SimWords, the empty one included
SimQueries ==
    {Words(SubSeq(SimWords, lo, hi)) :
        lo \in 1..Len(SimWords), hi \in 0..Len(SimWords)}

InitSim ==
    /\ IdleChunk /\ IdleMerge /\ IdleNorm /\ IdleEngine /\ IdleFmt /\ IdlePeer
    /\ query1 \in SimQueries
    /\ query2 \in SimQueries
    /\ similar = FALSE
    /\ spc = "start"

\* is_similar_query(query1, query2)
IsSimilarQuery ==
    /\ spc = "start"
    /\ similar' = is_similar_query(query1, query2)
    /\ spc' = "done"
    /\ UNCHANGED <<query1, query2, chunkVars, mergeVars, normVars, cacheVars,
                   engineVars,
                   fmtVars, peerVars>>

NextSim == IsSimilarQuery

SpecSim == InitSim /\ [][NextSim]_vars

\* the words of q that are key terms, found without str.split: the key
\* terms that occur in q between whitespace or the ends of q
TermsOf(q) ==
    {t \in key_terms :
        \E n \in 1..Len(q) :
            /\ n + Len(t) - 1 <= Len(q)
            /\ SubSeq(q, n, n + Len(t) - 1) = t
            /\ n = 1 \/ q[n - 1] \in Whitespace
            /\ n + Len(t) - 1 = Len(q) \/ q[n + Len(t)] \in Whitespace
            /\ \A m \in 1..Len(t) : t[m] \notin Whitespace}

\* C6: fuzzy-match threshold. With A and B the key terms among the words of
\* the two strings, is_similar_query is true exactly when A and B are not
\* empty and |A \cap B| / |A \cup B| >= 7/10.
FuzzyThreshold ==
    spc = "done" =>
        LET A == TermsOf(query1)
            B == TermsOf(query2)
        IN  similar <=>
                /\ A # {}
                /\ B # {}
                /\ 10 * Cardinality(A \cap B) >= 7 * Cardinality(A \cup B)

\* two strings with a ratio of exactly 7/10 were compared and matched
FuzzyThresholdWitness ==
    /\ spc = "done"
    /\ similar
    /\ Cardinality(TermsOf(query1) \cap TermsOf(query2)) = 7
    /\ Cardinality(TermsOf(query1) \cup TermsOf(query2)) = 10

-----------------------------------------------------------------------------
(***************************************************************************)
(* QueryCache: the curated table, the dynamic table and check_cache        *)
(*                                                                         *)
(* A cache entry is the dict check_cache returns. Of a curated entry the   *)
(* model keeps its place in the table (id), its template_type, that it has *)
(* a 'details' dict and the 'reference' in it; of a dynamic entry its      *)
(* 'answer' and 'template_type'. NoEntry models None.                      *)
(* A text the engine returns as an answer is modelled by how it was made:  *)
(*   "curated"  the 'answer' string of curated entry id                    *)
(*   "details"  the text rendered from the 'details' of curated entry id   *)
(*   "formatted" format_answer's text for raw answer id with refs          *)
(*   "no_information" the fixed text of query_engine.py 124                *)
(***************************************************************************)

\* self.common_qa (lines 16-255), in the order of the dict
common_qa_table ==
  <<
    \* 1 (line 18)
    [key |-> Words(<<w_can, w_i, w_build, w_a, w_shed, w_in, w_ar1>>),
     template_type |-> "setback", reference |-> "Section 5-603"],
    \* 2 (line 30)
    [key |-> Words(<<w_whats, w_the, w_setback, w_for, w_a, w_barn>>),
     template_type |-> "setback", reference |-> "Section 5-603"],
    \* 3 (line 42)
    [key |-> Words(<<w_how, w_far, w_from, w_property, w_line, w_for, w_accessory, w_structure>>),
     template_type |-> "setback", reference |-> "Section 5-603"],
    \* 4 (line 55)
    [key |-> Words(<<w_do, w_i, w_need, w_a, w_permit, w_for, w_chickens>>),
     template_type |-> "permit", reference |-> "Section 5-102"],
    \* 5 (line 66)
    [key |-> Words(<<w_do, w_i, w_need, w_a, w_permit, w_for, w_a, w_shed>>),
     template_type |-> "permit", reference |-> "Section 6-101"],
    \* 6 (line 77)
    [key |-> Words(<<w_permit, w_for, w_fence>>),
     template_type |-> "permit", reference |-> "Section 5-900"],
    \* 7 (line 89)
    [key |-> Words(<<w_are, w_horses, w_allowed, w_on, w_2, w_acres>>),
     template_type |-> "livestock", reference |-> "Section 5-102"],
    \* 8 (line 102)
    [key |-> Words(<<w_can, w_i, w_have, w_chickens, w_on, w_1, w_acre>>),
     template_type |-> "livestock", reference |-> "Section 5-102"],
    \* 9 (line 114)
    [key |-> Words(<<w_how, w_many, w_chickens, w_can, w_i, w_have>>),
     template_type |-> "livestock", reference |-> "Section 5-102"],
    \* 10 (line 129)
    [key |-> Words(<<w_maximum, w_shed, w_size, w_without, w_permit>>),
     template_type |-> "simple", reference |-> "Section 6-101"],
    \* 11 (line 139)
    [key |-> Words(<<w_can, w_i, w_build, w_a, w_pool>>),
     template_type |-> "permit", reference |-> "Section 5-1000"],
    \* 12 (line 152)
    [key |-> Words(<<w_what, w_can, w_i, w_build, w_in, w_ar1>>),
     template_type |-> "simple", reference |-> "Section 3-102"],
    \* 13 (line 162)
    [key |-> Words(<<w_minimum, w_lot, w_size, w_ar1>>),
     template_type |-> "simple", reference |-> "Section 4-100"],
    \* 14 (line 173)
    [key |-> Words(<<w_can, w_i, w_run, w_a, w_business, w_from, w_home>>),
     template_type |-> "use", reference |-> "Section 5-500"],
    \* 15 (line 187)
    [key |-> Words(<<w_shed, w_setback, w_requirements>>),
     template_type |-> "setback", reference |-> "Section 5-603"],
    \* 16 (line 199)
    [key |-> Words(<<w_garage, w_setback>>),
     template_type |-> "setback", reference |-> "Section 5-603"],
    \* 17 (line 212)
    [key |-> Words(<<w_fence, w_height, w_limit>>),
     template_type |-> "simple", reference |-> "Section 5-900"],
    \* 18 (line 222)
    [key |-> Words(<<w_accessory, w_structure, w_height>>),
     template_type |-> "simple", reference |-> "Section 5-604"],
    \* 19 (line 232)
    [key |-> Words(<<w_driveway, w_permit>>),
     template_type |-> "permit", reference |-> "Section 7-400"],
    \* 20 (line 243)
    [key |-> Words(<<w_beekeeping, w_allowed>>),
     template_type |-> "livestock", reference |-> "Section 5-102"]
  >>

\* self.common_qa[key] for the key at place n
CuratedEntry(n) ==
    [kind |-> "curated", id |-> n,
     template_type |-> common_qa_table[n].template_type,
     has_details |-> TRUE,
     reference |-> common_qa_table[n].reference,
     answer |-> [kind |-> "curated", id |-> n, template |-> "",
                 refs |-> <<>>]]

CuratedIds == 1..Len(common_qa_table)

\* the digest of the question as it was asked
get_cache_key_verbatim(q) == q

\* line 274: hashlib.md5(normalized.encode()).hexdigest(). The digest is
\* modelled by the string it is computed from (no two strings of the model
\* collide).
get_cache_key(q) == normalize_query(q)

\* check_cache without the exact match of lines 281-282
check_cache_fuzzy_first(table, q) ==
    LET norm == normalize_query(q)
        similar_ids == {n \in CuratedIds :
                           is_similar_query(norm, common_qa_table[n].key)}
    IN  IF similar_ids # {} THEN CuratedEntry(SetMin(similar_ids))
        ELSE IF get_cache_key(q) \in DOMAIN table THEN table[get_cache_key(q)]
        ELSE NoEntry

\* check_cache looking into the dynamic table before the similar keys
check_cache_dynamic_first(table, q) ==
    LET norm == normalize_query(q)
        exact_ids == {n \in CuratedIds : common_qa_table[n].key = norm}
        similar_ids == {n \in CuratedIds :
                           is_similar_query(norm, common_qa_table[n].key)}
    IN  IF exact_ids # {} THEN CuratedEntry(SetMin(exact_ids))
        ELSE IF get_cache_key(q) \in DOMAIN table THEN table[get_cache_key(q)]
        ELSE IF similar_ids # {} THEN CuratedEntry(SetMin(similar_ids))
        ELSE NoEntry

\* lines 276-295, table being self.cache
check_cache(table, q) ==
    LET norm == normalize_query(q)
        exact_ids == {n \in CuratedIds : common_qa_table[n].key = norm}
        similar_ids == {n \in CuratedIds :
                           is_similar_query(norm, common_qa_table[n].key)}
    IN  IF exact_ids # {} THEN CuratedEntry(SetMin(exact_ids))
        ELSE IF similar_ids # {} THEN CuratedEntry(SetMin(similar_ids))
        ELSE IF get_cache_key(q) \in DOMAIN table THEN table[get_cache_key(q)]
        ELSE NoEntry

\* the dict add_to_cache is given by answer_question (query_engine.py
\* 141-144)
DynamicEntry(answer, template_type) ==
    [kind |-> "dynamic", id |-> 0, template_type |-> template_type,
     has_details |-> FALSE, reference |-> "", answer |-> answer]

\* load_cache taking what the file holds whenever the file exists
load_cache_unchecked(file) == IF file.state = "absent" THEN <<>> ELSE file.content

\* lines 321-329: a missing or unreadable file gives an empty table
load_cache(file) == IF file.state = "valid" THEN file.content ELSE <<>>

\* an assignment that drops every other entry of the table
PutAlone(table, key, entry) == [k \in {key} |-> entry]

\* line 318: self.cache[cache_key] = answer
Put(table, key, entry) ==
    [k \in DOMAIN table \cup {key} |-> IF k = key THEN entry ELSE table[k]]

\* a save that leaves an empty table in the file
save_cache_truncated(table) == [state |-> "valid", content |-> <<>>]

\* lines 331-335: the whole table is written
save_cache(table) == [state |-> "valid", content |-> table]

\* the questions asked of the cache: each curated key as it is, capitalized
\* with a question mark, and in upper case
Variants(n) ==
    {common_qa_table[n].key,
     StrCapitalize(common_qa_table[n].key) \o <<"?">>,
     StrUpper(common_qa_table[n].key)}

q_deck == Words(<<w_deck, w_size, w_limit>>)

q_horses == Words(<<w_are, w_horses, w_allowed, w_on, w_2, w_acres>>)

LookupQuestions == UNION {Variants(n) : n \in CuratedIds} \cup {q_deck}

\* the questions and entries given to add_to_cache
InsertQuestions == {q_horses, q_deck}

InsertEntries ==
    {DynamicEntry([kind |-> "formatted", id |-> 1, template |-> "simple",
                                  refs |-> <<>>], "simple"),
     DynamicEntry([kind |-> "formatted", id |-> 2, template |-> "livestock",
                   refs |-> <<"5-102">>],
                  "livestock")}

\* the file when the cache is constructed: missing, unreadable (what is left
\* of a table once written, which json.load rejects), or written by an
\* earlier run
InitialStores ==
    LET written == Put(<<>>, get_cache_key(q_deck),
                       DynamicEntry([kind |-> "formatted", id |-> 1,
                                     template |-> "simple", refs |-> <<>>],
                                    "simple"))
    IN  {[state |-> "absent", content |-> <<>>],
         [state |-> "corrupt", content |-> written],
         save_cache(written)}

\* QueryCache.__init__ (lines 11-13), nothing looked up yet
InitCache ==
    /\ IdleChunk /\ IdleMerge /\ IdleNorm /\ IdleSim /\ IdleFmt /\ IdlePeer
    /\ store \in InitialStores
    /\ cache = load_cache(store)
    /\ question = <<>>
    /\ county = ""
    /\ cached_answer = NoEntry
    /\ query_variations = <<>>
    /\ searched = 0
    /\ all_results = <<>>
    /\ seen_chunks = {}
    /\ searches = <<>>
    /\ found = <<>>
    /\ result = NoResult
    /\ calls = <<>>
    /\ epc = "new"
    /\ asks = 0

\* check_cache(q), lines 276-295
CheckCache(q) ==
    /\ epc \in {"new", "looked_up"}
    /\ question' = q
    /\ cached_answer' = check_cache(cache, q)
    /\ epc' = "looked_up"
    /\ UNCHANGED <<cacheVars, county, query_variations, searched, all_results,
                   seen_chunks, searches, found, result, calls, asks>>
    /\ UNCHANGED <<chunkVars, mergeVars, normVars, simVars, fmtVars, peerVars>>

\* add_to_cache(q, entry), lines 315-319, with save_cache
AddToCache(q, entry) ==
    /\ epc \in {"new", "looked_up"}
    /\ cache' = Put(cache, get_cache_key(q), entry)
    /\ store' = save_cache(cache')
    /\ UNCHANGED <<engineVars, chunkVars, mergeVars, normVars, simVars, fmtVars, peerVars>>

NextCache ==
    \/ \E q \in LookupQuestions : CheckCache(q)
    \/ \E q \in InsertQuestions, entry \in InsertEntries : AddToCache(q, entry)

SpecCache == InitCache /\ [][NextCache]_vars

\* C8: every curated question is served from the cache. After check_cache
\* on a curated key asked verbatim, in any letter case, with or without a
\* question mark, the value returned is the entry stored under that key.
CuratedQuestionsHit ==
    epc = "looked_up" =>
        \A n \in CuratedIds :
            question \in Variants(n) => cached_answer = CuratedEntry(n)

-----------------------------------------------------------------------------
(***************************************************************************)
(* QueryExpander.extract_key_entities and create_focused_query             *)
(***************************************************************************)

\* sub in s
Contains(s, sub) ==
    \E n \in 1..(Len(s) - Len(sub) + 1) : SubSeq(s, n, n + Len(sub) - 1) = sub

\* the elements of seq at the places in P, in order
Pick(seq, P) ==
    LET Place(k) == CHOOSE n \in P : Cardinality({m \in P : m < n}) = k - 1
    IN  [k \in 1..Cardinality(P) |-> seq[Place(k)]]

Digits == {"0", "1", "2", "3", "4", "5", "6", "7", "8", "9"}

Letters == Range(Uppers) \cup Range(Lowers)

\* \w of the re module, on the characters of the model
WordChars == Letters \cup Digits \cup {"_"}

\* query_expander.py 140
structure_keywords ==
    <<w_shed, w_barn, w_garage, w_fence, w_pool, w_deck, w_house, w_building>>

\* query_expander.py 146
animal_keywords ==
    <<w_chicken, w_horse, w_cow, w_goat, w_pig, w_sheep, w_bee, w_poultry,
      w_livestock>>

\* query_expander.py 152: the alternatives of zone_pattern, as the
\* lower-case prefix and the class of the characters repeated after it
zone_alternatives ==
    <<[prefix |-> <<"a", "r", "-">>, class |-> Digits],
      [prefix |-> <<"r", "-">>, class |-> Digits],
      [prefix |-> <<"t", "r", "-">>, class |-> Digits],
      [prefix |-> <<"p", "d", "-">>, class |-> Letters]>>

\* the last place of the match of zone_pattern that starts at place n of s,
\* 0 if none does: \b, a prefix in either case, the longest run of the
\* class, \b. A shorter run ends before a word character, so that the
\* closing \b fails there as well.
ZoneMatchEnd(s, n) ==
    LET AltEnd(alt) ==
            LET from == n + Len(alt.prefix)
                run == {m \in from..Len(s) :
                           \A x \in from..m : s[x] \in alt.class}
            IN  IF /\ from - 1 <= Len(s)
                   /\ StrLower(SubSeq(s, n, from - 1)) = alt.prefix
                   /\ run # {}
                   /\ (SetMax(run) = Len(s) \/ s[SetMax(run) + 1] \notin WordChars)
                THEN SetMax(run) ELSE 0
        ends == {AltEnd(zone_alternatives[a]) : a \in 1..Len(zone_alternatives)}
    IN  IF n > 1 /\ s[n - 1] \in WordChars THEN 0 ELSE SetMax(ends \cup {0})

\* re.findall(zone_pattern, query, re.IGNORECASE): the matches from left
\* to right, a match that starts inside an earlier one left out
ZoneMatches(s) ==
    LET starts == {n \in 1..Len(s) : ZoneMatchEnd(s, n) > 0}
        taken == {n \in starts :
                     ~\E m \in starts : m < n /\ n <= ZoneMatchEnd(s, m)}
    IN  Pick([n \in 1..Len(s) |-> SubSeq(s, n, ZoneMatchEnd(s, n))], taken)

\* query_expander.py 128-162; the measurements are left out, no caller in
\* the engine reads them
extract_key_entities(q) ==
    LET query_lower == StrLower(q)
    IN  [structures |->
             Pick(structure_keywords,
                  {n \in 1..Len(structure_keywords) :
                      Contains(query_lower, structure_keywords[n])}),
         animals |->
             Pick(animal_keywords,
                  {n \in 1..Len(animal_keywords) :
                      \/ Contains(query_lower, animal_keywords[n])
                      \/ Contains(query_lower, animal_keywords[n] \o <<"s">>)}),
         zones |-> ZoneMatches(q)]

\* the concatenation of the sequences of a sequence
RECURSIVE Flatten(_)
Flatten(seqs) ==
    IF seqs = <<>> THEN <<>> ELSE Head(seqs) \o Flatten(Tail(seqs))

\* query_expander.py 164-195
create_focused_query(q) ==
    LET entities == extract_key_entities(q)
        has_setback == Contains(StrLower(q), w_setback)
        has_permit == Contains(StrLower(q), w_permit)
        ForStructure(x) ==
            (IF has_setback
             THEN <<Words(<<x, w_setback, w_requirements>>),
                    Words(<<w_accessory, w_structure, w_setback, x>>)>>
             ELSE <<>>)
            \o (IF has_permit THEN <<Words(<<x, w_permit, w_requirements>>)>>
                ELSE <<>>)
        ForAnimal(x) ==
            <<Words(<<x, w_regulations>>),
              Words(<<w_livestock, x, w_requirements>>)>>
            \o (IF has_permit THEN <<Words(<<x, w_permit, w_requirements>>)>>
                ELSE <<>>)
        ForZone(x) ==
            <<Words(<<x, w_regulations>>), Words(<<x, w_permitted, w_uses>>)>>
            \o (IF entities.structures # <<>>
                THEN <<Words(<<x, entities.structures[1], w_requirements>>)>>
                ELSE <<>>)
    IN  <<q>>
        \o Flatten([n \in 1..Len(entities.structures) |->
                       ForStructure(entities.structures[n])])
        \o Flatten([n \in 1..Len(entities.animals) |->
                       ForAnimal(entities.animals[n])])
        \o Flatten([n \in 1..Len(entities.zones) |->
                       ForZone(entities.zones[n])])

-----------------------------------------------------------------------------
(***************************************************************************)
(* AnswerFormatter.detect_template_type and format_answer                  *)
(***************************************************************************)

\* templates.py 81-86, in the order of the dict
template_triggers ==
    <<
      [template_type |-> "setback",
       triggers |-> {<<"s","e","t","b","a","c","k">>,
                    <<"d","i","s","t","a","n","c","e"," ","f","r","o","m">>,
                    <<"h","o","w"," ","f","a","r">>,
                    <<"y","a","r","d","s">>,
                    <<"f","e","e","t"," ","f","r","o","m">>}],
      [template_type |-> "permit",
       triggers |-> {<<"p","e","r","m","i","t">>,
                    <<"a","p","p","r","o","v","a","l">>,
                    <<"a","p","p","l","i","c","a","t","i","o","n">>,
                    <<"n","e","e","d"," ","p","e","r","m","i","t">>,
                    <<"a","u","t","h","o","r","i","z","a","t","i","o","n">>}],
      [template_type |-> "livestock",
       triggers |-> {<<"c","h","i","c","k","e","n">>,
                    <<"h","o","r","s","e">>,
                    <<"c","o","w">>,
                    <<"l","i","v","e","s","t","o","c","k">>,
                    <<"a","n","i","m","a","l">>,
                    <<"p","o","u","l","t","r","y">>,
                    <<"f","o","w","l">>}],
      [template_type |-> "use",
       triggers |-> {<<"a","l","l","o","w","e","d"," ","u","s","e">>,
                    <<"p","e","r","m","i","t","t","e","d"," ","u","s","e">>,
                    <<"c","a","n"," ","i"," ","u","s","e">>,
                    <<"c","o","n","d","i","t","i","o","n","a","l"," ","u","s","e">>,
                    <<"s","p","e","c","i","a","l"," ","e","x","c","e","p","t","i","o","n">>}]
    >>

\* detect_template_type returning the last type with a trigger in the text
detect_template_type_last(q, answer) ==
    LET combined_text == StrLower(q \o <<" ">> \o answer)
        hits == {n \in 1..Len(template_triggers) :
                    \E t \in template_triggers[n].triggers :
                        Contains(combined_text, t)}
    IN  IF hits = {} THEN "simple"
        ELSE template_triggers[SetMax(hits)].template_type

\* detect_template_type with a default that is no key of self.templates
detect_template_type_general(q, answer) ==
    LET combined_text == StrLower(q \o <<" ">> \o answer)
        hits == {n \in 1..Len(template_triggers) :
                    \E t \in template_triggers[n].triggers :
                        Contains(combined_text, t)}
    IN  IF hits = {} THEN "general"
        ELSE template_triggers[SetMin(hits)].template_type

\* templates.py 88-98
detect_template_type(q, answer) ==
    LET combined_text == StrLower(q \o <<" ">> \o answer)
        hits == {n \in 1..Len(template_triggers) :
                    \E t \in template_triggers[n].triggers :
                        Contains(combined_text, t)}
    IN  IF hits = {} THEN "simple"
        ELSE template_triggers[SetMin(hits)].template_type

\* the texts the generation collaborator returns: a short one, one of
\* exactly 50 characters and one of more than 50
RawAnswers ==
    <<<<"N","o","t"," ","s","t","a","t","e","d",".">>,
      <<"H","o","r","s","e","s"," ","n","e","e","d"," ","t","w","o"," ","a","c","r","e","s"," ","i","n"," ","A","R","-","1"," ","(","S","e","c","t","i","o","n"," ","5","-","1","0","2",")"," ","n","o","w",".">>,
      <<"S","h","e","d","s"," ","m","u","s","t"," ","b","e"," ","2","5"," ","f","e","e","t"," ","f","r","o","m"," ","s","i","d","e"," ","l","o","t"," ","l","i","n","e","s"," ","(","S","e","c","t","i","o","n"," ","5","-","6","0","3",")",".">>>>

\* templates.py 274-308, raw being the place of the raw answer in RawAnswers:
\* the text is modelled by what it is rendered from, the raw answer, the
\* template detected and the sections of citations[:3] used as reference
format_answer(q, raw, citations) ==
    [kind |-> "formatted", id |-> raw,
     template |-> detect_template_type(q, RawAnswers[raw]),
     refs |-> [n \in 1..(IF Len(citations) < 3 THEN Len(citations) ELSE 3) |->
                  citations[n].section]]

-----------------------------------------------------------------------------
(***************************************************************************)
(* ZoningQueryEngine: search, search_multiple_queries, answer_question     *)
(***************************************************************************)

\* query_engine.py 115: top_k=5
TopK == 5

\* line 69: queries[:3]
MaxVariations == 3

\* line 276: chunks[:3]
MaxCitations == 3

\* line 140: len(answer) > 50
MinAnswerLength == 50

\* the most passages the vector index returns for one search
MaxHits == 2

\* the most invocations of answer_question
MaxAsks == 2

Counties == {"loudoun", "fairfax"}

\* the passages ingested: text and lead (text[:100]) are identifiers,
\* section is metadata['section'], "" when the key is missing, distances
\* are the cosine distances, in tenths, the index can report for the passage
\* (the distance depends on the query). Passages 1 and 5 begin with the same
\* 100 characters. The index of fairfax is empty.
Passages ==
    {[text |-> 1, lead |-> 1, section |-> "5-603", distances |-> {1, 4}],
     [text |-> 2, lead |-> 2, section |-> "5-603", distances |-> {1}],
     [text |-> 3, lead |-> 3, section |-> "", distances |-> {4}],
     [text |-> 4, lead |-> 4, section |-> "", distances |-> {4}],
     [text |-> 5, lead |-> 1, section |-> "", distances |-> {4}]}

\* the passages of a third county: six passages that differ in their first
\* 100 characters, each at one distance from every query
Register ==
    {[text |-> 10 + n, lead |-> 10 + n, section |-> "", distances |-> {n}] :
        n \in 1..6}

\* the passages of a fourth county, whose distances to the queries are
\* known: passage 21 is at distance 4 from a question and at distance 1 from
\* every other variation, passage 22 at distances 2 and 3
Survey ==
    {[text |-> 21, lead |-> 21, section |-> "5-603", distances |-> {1, 4}],
     [text |-> 22, lead |-> 22, section |-> "", distances |-> {2, 3}]}

Index(c) ==
    IF c = "loudoun" THEN Passages
    ELSE IF c = "clarke" THEN Register
    ELSE IF c = "frederick" THEN Survey
    ELSE {}

\* lines 55-60: one formatted result
Hit(p, d) ==
    [text |-> p.text, lead |-> p.lead, section |-> p.section, distance |-> d]

\* what collection.query can return for a county: at most n_results
\* passages of the county, no passage twice, nearest first
Responses(c) ==
    LET most == IF MaxHits < TopK THEN MaxHits ELSE TopK
        hits == UNION {{Hit(p, d) : d \in p.distances} : p \in Index(c)}
    IN  UNION {{r \in [1..n -> hits] :
                   /\ \A a, b \in 1..n : a < b => r[a].text # r[b].text
                   /\ \A a, b \in 1..n : a < b => r[a].distance <= r[b].distance}
               : n \in 0..most}

\* search (lines 28-62): the embedding call fails, the vector query fails,
\* or the formatted results are returned
SearchOutcomes(c) ==
    {[fails |-> "embed", chunks |-> <<>>], [fails |-> "query", chunks |-> <<>>]}
    \cup {[fails |-> "", chunks |-> r] : r \in Responses(c)}

\* what collection.query returns in frederick, nearest first: to the query
\* searched for when it is the question asked, and to any other variation
SurveyResponse(searched_for, asked) ==
    LET near == CHOOSE p \in Survey : p.text = 21
        far == CHOOSE p \in Survey : p.text = 22
    IN  IF searched_for = asked THEN <<Hit(far, 2), Hit(near, 4)>>
        ELSE <<Hit(near, 1), Hit(far, 3)>>

\* search (lines 28-62) of a county for a query of the invocation for the
\* question asked
SearchOutcomesTo(c, searched_for, asked) ==
    IF c = "frederick"
    THEN {[fails |-> "embed", chunks |-> <<>>], [fails |-> "query", chunks |-> <<>>],
          [fails |-> "", chunks |-> SurveyResponse(searched_for, asked)]}
    ELSE SearchOutcomes(c)

\* search calling the embedding a second time when the first call fails
SearchCallsRetry(outcome) ==
    IF outcome.fails = "embed" THEN <<"embed", "embed">> ELSE <<"embed", "query">>

\* the external calls search makes until it fails or returns
SearchCalls(outcome) ==
    IF outcome.fails = "embed" THEN <<"embed">> ELSE <<"embed", "query">>

\* line 73: hash(chunk['text'][:100])
chunk_id(chunk) == chunk.lead

\* every chunk of a search entering all_results
NewChunksAll(seen, results) == results

\* lines 71-76: the chunks of one search that enter all_results
NewChunks(seen, results) ==
    Pick(results, {n \in 1..Len(results) :
                     /\ chunk_id(results[n]) \notin seen
                     /\ \A m \in 1..(n - 1) :
                            chunk_id(results[m]) # chunk_id(results[n])})

\* the pool left in the order of insertion
SortByInsertion(seq) == seq

\* sorted(..., key=distance): a stable sort
SortByDistance(seq) ==
    LET Rank(n) == Cardinality({m \in 1..Len(seq) :
                       \/ seq[m].distance < seq[n].distance
                       \/ seq[m].distance = seq[n].distance /\ m < n}) + 1
    IN  [k \in 1..Len(seq) |-> seq[CHOOSE n \in 1..Len(seq) : Rank(n) = k]]

\* seq[:n]
Take(seq, n) == SubSeq(seq, 1, IF Len(seq) < n THEN Len(seq) ELSE n)

\* line 277: chunk['metadata'].get('section', 'Unknown')
SectionOf(chunk) == IF chunk.section = "" THEN "Unknown" ELSE chunk.section

\* _extract_citations without seen_sections
extract_citations_all(results) ==
    LET top == Take(results, MaxCitations)
    IN  [n \in 1..Len(top) |->
            [section |-> SectionOf(top[n]), relevance |-> 10 - top[n].distance]]

\* _extract_citations, lines 271-285; relevance in tenths
extract_citations(results) ==
    LET top == Take(results, MaxCitations)
        kept == Pick(top, {n \in 1..Len(top) :
                              \A m \in 1..(n - 1) :
                                  SectionOf(top[m]) # SectionOf(top[n])})
    IN  [n \in 1..Len(kept) |->
            [section |-> SectionOf(kept[n]), relevance |-> 10 - kept[n].distance]]

\* _format_cached_answer, lines 154-195: three templates are rendered from the
\* details, any other type returns the entry's answer
format_cached_answer(cached_data) ==
    IF cached_data.template_type \in {"setback", "permit", "livestock"}
    THEN [kind |-> "details", id |-> cached_data.id,
          template |-> cached_data.template_type,
          refs |-> <<cached_data.reference>>]
    ELSE cached_data.answer

\* a hit that is not served to a county without passages
CachedRecordScoped(q, c, entry) ==
    [status |-> "returned", question |-> q,
     answer |-> IF Index(c) = {}
                THEN [kind |-> "no_information", id |-> 0, template |-> "",
                      refs |-> <<>>]
                ELSE IF entry.has_details THEN format_cached_answer(entry)
                ELSE entry.answer,
     citations |-> IF entry.has_details /\ Index(c) # {}
                   THEN <<[section |-> entry.reference, relevance |-> -1]>>
                   ELSE <<>>,
     county |-> c, cached |-> "True", chunks_searched |-> -1]

\* lines 91-109: the record of a cache hit. A citation made of the reference
\* has no 'relevance' key (-1); the record has no 'chunks_searched' key (-1).
CachedRecord(q, c, entry) ==
    [status |-> "returned", question |-> q,
     answer |-> IF entry.has_details THEN format_cached_answer(entry)
                ELSE entry.answer,
     citations |-> IF entry.has_details
                   THEN <<[section |-> entry.reference, relevance |-> -1]>>
                   ELSE <<>>,
     county |-> c, cached |-> "True", chunks_searched |-> -1]

\* line 124: the text names the county
NoInformationAnswer ==
    [kind |-> "no_information", id |-> 0, template |-> "", refs |-> <<>>]

\* lines 122-127: the record has no 'cached' key
NoInformationRecord(q, c) ==
    [status |-> "returned", question |-> q, answer |-> NoInformationAnswer,
     citations |-> <<>>, county |-> c, cached |-> "absent",
     chunks_searched |-> -1]

\* lines 146-152: the record has no 'cached' key
GeneratedRecord(q, c, raw, results) ==
    [status |-> "returned", question |-> q,
     answer |-> format_answer(q, raw, extract_citations(results)),
     citations |-> extract_citations(results),
     county |-> c, cached |-> "absent", chunks_searched |-> Len(results)]

\* an exception of a collaborator leaves answer_question: nothing returned
RaisedRecord(q, c) ==
    [status |-> "raised", question |-> q, answer |-> NoAnswer,
     citations |-> <<>>, county |-> c, cached |-> "absent",
     chunks_searched |-> -1]

\* lines 117 and 121 taken for never true
NoChunksNever(results) == FALSE

\* lines 117 and 121: not chunks
NoChunks(results) == results = <<>>

q_driveway == <<"D","r","i","v","e","w","a","y"," ","p","e","r","m","i","t","?">>

q_fence == <<"f","e","n","c","e"," ","h","e","i","g","h","t"," ","l","i","m","i","t">>

q_shed == <<"C","a","n"," ","I"," ","b","u","i","l","d"," ","a"," ","s","h","e","d"," ","i","n"," ","A","R","-","1","?">>

q_horses_asked == <<"A","r","e"," ","h","o","r","s","e","s"," ","a","l","l","o","w","e","d"," ","o","n"," ","2"," ","a","c","r","e","s","?">>

q_deck_asked == <<"D","e","c","k"," ","s","i","z","e"," ","l","i","m","i","t","?">>

\* asked of the engine: two curated keys, a question close to a curated key,
\* and two questions the curated table does not answer
Questions == {q_driveway, q_fence, q_shed, q_horses_asked, q_deck, q_deck_asked}

\* ZoningQueryEngine.__init__, lines 10-26, with QueryCache.__init__
InitEngine ==
    /\ IdleChunk /\ IdleMerge /\ IdleNorm /\ IdleSim /\ IdleFmt /\ IdlePeer
    /\ store \in InitialStores
    /\ cache = load_cache(store)
    /\ question = <<>>
    /\ county = ""
    /\ cached_answer = NoEntry
    /\ query_variations = <<>>
    /\ searched = 0
    /\ all_results = <<>>
    /\ seen_chunks = {}
    /\ searches = <<>>
    /\ found = <<>>
    /\ result = NoResult
    /\ calls = <<>>
    /\ epc = "ready"
    /\ asks = 0

\* answer_question, lines 84-112: the cache lookup; a hit returns
AnswerQuestion(q, c) ==
    /\ epc = "ready"
    /\ asks < MaxAsks
    /\ asks' = asks + 1
    /\ question' = q
    /\ county' = c
    /\ cached_answer' = check_cache(cache, q)
    /\ IF cached_answer' # NoEntry
       THEN /\ result' = CachedRecord(q, c, cached_answer')
            /\ query_variations' = <<>>
            /\ epc' = "done"
       ELSE /\ query_variations' = create_focused_query(q)
            /\ result' = NoResult
            /\ epc' = "search"
    /\ UNCHANGED <<cacheVars, searched, all_results, seen_chunks, searches, found,
                   calls>>
    /\ UNCHANGED <<chunkVars, mergeVars, normVars, simVars, fmtVars, peerVars>>

\* every variation taken, however many there are
SearchableAll(queries) == queries

\* line 69: queries[:3]
Searchable(queries) == Take(queries, MaxVariations)

\* search_multiple_queries, lines 64-82: the search of the next variation
\* and, after the last one, the sort and the cut (line 115: top_k=5)
SearchVariant(outcome) ==
    /\ epc = "search"
    /\ searches' = Append(searches, Searchable(query_variations)[searched + 1])
    /\ calls' = calls \o SearchCalls(outcome)
    /\ IF outcome.fails # ""
       THEN /\ result' = RaisedRecord(question, county)
            /\ epc' = "done"
            /\ UNCHANGED <<searched, all_results, seen_chunks, found>>
       ELSE /\ searched' = searched + 1
            /\ all_results' = all_results \o NewChunks(seen_chunks, outcome.chunks)
            /\ seen_chunks' = seen_chunks
                   \cup {chunk_id(outcome.chunks[n]) : n \in 1..Len(outcome.chunks)}
            /\ IF searched' = Len(Searchable(query_variations))
               THEN /\ found' = Take(SortByDistance(all_results'), TopK)
                    /\ epc' = IF NoChunks(found') THEN "fallback" ELSE "generate"
               ELSE /\ found' = found
                    /\ epc' = "search"
            /\ result' = result
    /\ UNCHANGED <<cacheVars, question, county, cached_answer, query_variations,
                   asks>>
    /\ UNCHANGED <<chunkVars, mergeVars, normVars, simVars, fmtVars, peerVars>>

\* lines 117-127: one more search with the question; nothing found returns
\* the no-information record
Fallback(outcome) ==
    /\ epc = "fallback"
    /\ searches' = Append(searches, question)
    /\ calls' = calls \o SearchCalls(outcome)
    /\ IF outcome.fails # ""
       THEN /\ result' = RaisedRecord(question, county)
            /\ epc' = "done"
            /\ found' = found
       ELSE /\ found' = outcome.chunks
            /\ IF NoChunks(found')
               THEN /\ result' = NoInformationRecord(question, county)
                    /\ epc' = "done"
               ELSE /\ result' = result
                    /\ epc' = "generate"
    /\ UNCHANGED <<cacheVars, question, county, cached_answer, query_variations,
                   searched, all_results, seen_chunks, asks>>
    /\ UNCHANGED <<chunkVars, mergeVars, normVars, simVars, fmtVars, peerVars>>

\* the test of line 140 with >= for >
SubstantiveInclusive(answer) == Len(answer) >= MinAnswerLength

\* line 140: len(answer) > 50, answer being what _generate_answer returned
Substantive(answer) == Len(answer) > MinAnswerLength

\* the cache written and saved before the generation call
GenerationCallsWriteFirst(cache_it) ==
    IF cache_it THEN <<"persist", "generate">> ELSE <<"generate">>

\* lines 129-144: _generate_answer is called (line 132); add_to_cache, with
\* its save, is called after it when the answer is cached (lines 140-144)
GenerationCalls(cache_it) ==
    IF cache_it THEN <<"generate", "persist">> ELSE <<"generate">>

\* lines 129-133: the generation call fails
GenerateFails ==
    /\ epc = "generate"
    /\ calls' = calls \o <<"generate">>
    /\ result' = RaisedRecord(question, county)
    /\ epc' = "done"
    /\ UNCHANGED <<cacheVars, question, county, cached_answer, query_variations,
                   searched, all_results, seen_chunks, searches, found, asks>>
    /\ UNCHANGED <<chunkVars, mergeVars, normVars, simVars, fmtVars, peerVars>>

\* lines 129-152: the generation call returns RawAnswers[raw]; the answer is
\* formatted, cached when the raw answer is long enough, and returned
Generate(raw) ==
    /\ epc = "generate"
    /\ IF Substantive(RawAnswers[raw])
       THEN /\ cache' = Put(cache, get_cache_key(question),
                            DynamicEntry(format_answer(question, raw,
                                                       extract_citations(found)),
                                         detect_template_type(question,
                                                              RawAnswers[raw])))
            /\ store' = save_cache(cache')
            /\ calls' = calls \o GenerationCalls(TRUE)
       ELSE /\ UNCHANGED cacheVars
            /\ calls' = calls \o GenerationCalls(FALSE)
    /\ result' = GeneratedRecord(question, county, raw, found)
    /\ epc' = "done"
    /\ UNCHANGED <<question, county, cached_answer, query_variations, searched,
                   all_results, seen_chunks, searches, found, asks>>
    /\ UNCHANGED <<chunkVars, mergeVars, normVars, simVars, fmtVars, peerVars>>

\* the caller has the record (or the exception); the locals of the
\* invocation are gone
Return ==
    /\ epc = "done"
    /\ question' = <<>>
    /\ county' = ""
    /\ cached_answer' = NoEntry
    /\ query_variations' = <<>>
    /\ searched' = 0
    /\ all_results' = <<>>
    /\ seen_chunks' = {}
    /\ searches' = <<>>
    /\ found' = <<>>
    /\ result' = NoResult
    /\ calls' = <<>>
    /\ epc' = "ready"
    /\ UNCHANGED <<cacheVars, asks>>
    /\ UNCHANGED <<chunkVars, mergeVars, normVars, simVars, fmtVars, peerVars>>

NextEngine ==
    \/ \E q \in Questions, c \in Counties : AnswerQuestion(q, c)
    \/ \E outcome \in SearchOutcomes(county) : SearchVariant(outcome)
    \/ \E outcome \in SearchOutcomes(county) : Fallback(outcome)
    \/ GenerateFails
    \/ \E raw \in 1..Len(RawAnswers) : Generate(raw)
    \/ Return

SpecEngine == InitEngine /\ [][NextEngine]_vars

-----------------------------------------------------------------------------
(***************************************************************************)
(* Properties of answer_question                                           *)
(***************************************************************************)

\* the places of the curated keys equal to the normalized form of q
CuratedKeysOf(q) ==
    {n \in CuratedIds : common_qa_table[n].key = normalize_query(q)}

\* C7: cache hit on a curated key. Whenever an invocation of answer_question
\* ends for a question whose normalized form is a curated key, it returns a
\* record with cached = True whose answer comes from the entry stored under
\* that key (its answer, or the rendering of its details), it has made no
\* embedding, vector-search or generation call, and it has not written the
\* cache or its file.
CacheHitScenario ==
    [][(epc # "done" /\ epc' = "done" /\ CuratedKeysOf(question') # {}) =>
          LET k == CHOOSE k \in CuratedKeysOf(question') : TRUE
          IN  /\ result'.status = "returned"
              /\ result'.cached = "True"
              /\ result'.answer.kind \in {"curated", "details"}
              /\ result'.answer.id = k
              /\ calls' = <<>>
              /\ UNCHANGED cacheVars]_vars

\* a curated key asked with a capital and a question mark has been answered
\* with the rendering of its own entry
CacheHitScenarioWitness ==
    /\ epc = "done"
    /\ question = q_driveway
    /\ CuratedKeysOf(question) # {}
    /\ result.cached = "True"
    /\ result.answer.kind = "details"
    /\ common_qa_table[result.answer.id].key = normalize_query(question)
    /\ calls = <<>>

\* C9: no knowledge. No step of an invocation before the generation writes
\* the cache or its file, and whenever an invocation ends after a cache miss
\* with every search (of the variations and the fallback) having returned
\* no passage, it returns the no-information record with no citation,
\* without a generation call and without a cache write.
NoKnowledgeScenario ==
    [][/\ epc \in {"ready", "search", "fallback"} => UNCHANGED cacheVars
       /\ (/\ epc # "done" /\ epc' = "done"
           /\ cached_answer' = NoEntry
           /\ result'.status # "raised"
           /\ all_results' = <<>> /\ found' = <<>>) =>
              /\ result'.status = "returned"
              /\ result'.answer = NoInformationAnswer
              /\ result'.citations = <<>>
              /\ "generate" \notin Range(calls')
              /\ "persist" \notin Range(calls')
              /\ UNCHANGED cacheVars]_vars

\* a question with three variations asked for the county that has an index:
\* four searches, each embedded and queried, all empty
NoKnowledgeScenarioWitness ==
    /\ epc = "done"
    /\ county = "loudoun"
    /\ cached_answer = NoEntry
    /\ searched = 3
    /\ calls = <<"embed", "query", "embed", "query", "embed", "query",
                 "embed", "query">>
    /\ result = NoInformationRecord(question, county)

\* C10: citation cap. Every record answer_question returns, on a cache hit,
\* without knowledge or with a generated answer, has at most 3 citations, no
\* two of them with the same section.
CitationCap ==
    (epc = "done" /\ result.status = "returned") =>
        /\ Len(result.citations) <= 3
        /\ \A a, b \in 1..Len(result.citations) :
               a # b => result.citations[a].section # result.citations[b].section

\* a generated answer from more than 3 passages, the two nearest of the same
\* section: two citations are left
CitationCapWitness ==
    /\ epc = "done"
    /\ result.status = "returned"
    /\ result.chunks_searched > 3
    /\ SectionOf(found[1]) = SectionOf(found[2])
    /\ SectionOf(found[3]) # SectionOf(found[1])
    /\ Len(result.citations) = 2

-----------------------------------------------------------------------------
(***************************************************************************)
(* AnswerFormatter: the templates and extract_fields, character by         *)
(* character                                                               *)
(***************************************************************************)

\* templates.py 9-78: the format of each template, as its literal texts and
\* its placeholders in order
templates ==
    [setback |->
        <<[field |-> "", text |-> <<"*", "*", "S", "e", "t", "b", "a", "c", "k", " ", "R", "e", "q", "u", "i", "r", "e", "m", "e", "n", "t", "s", ":", "*", "*", "\n", " ", " ", " ", " ", " ", " ", " ", " ", " ", " ", " ", " ", " ", " ", " ", " ", "\n", "*", "*", "D", "i", "s", "t", "a", "n", "c", "e", " ", "R", "e", "q", "u", "i", "r", "e", "d", ":", "*", "*", " ">>],
          [field |-> "distance", text |-> <<>>],
          [field |-> "", text |-> <<"\n", "*", "*", "M", "e", "a", "s", "u", "r", "e", "d", " ", "F", "r", "o", "m", ":", "*", "*", " ">>],
          [field |-> "from_point", text |-> <<>>],
          [field |-> "", text |-> <<"\n", "*", "*", "A", "p", "p", "l", "i", "c", "a", "b", "l", "e", " ", "Z", "o", "n", "e", ":", "*", "*", " ">>],
          [field |-> "zone", text |-> <<>>],
          [field |-> "", text |-> <<"\n", "*", "*", "S", "t", "r", "u", "c", "t", "u", "r", "e", " ", "T", "y", "p", "e", ":", "*", "*", " ">>],
          [field |-> "structure_type", text |-> <<>>],
          [field |-> "", text |-> <<"\n", "\n">>],
          [field |-> "additional_notes", text |-> <<>>],
          [field |-> "", text |-> <<"\n", "\n", "*", "*", "R", "e", "f", "e", "r", "e", "n", "c", "e", ":", "*", "*", " ">>],
          [field |-> "reference", text |-> <<>>]>>,
     permit |->
        <<[field |-> "", text |-> <<"*", "*", "P", "e", "r", "m", "i", "t", " ", "R", "e", "q", "u", "i", "r", "e", "m", "e", "n", "t", "s", ":", "*", "*", "\n", "\n", "*", "*", "P", "e", "r", "m", "i", "t", " ", "R", "e", "q", "u", "i", "r", "e", "d", ":", "*", "*", " ">>],
          [field |-> "required", text |-> <<>>],
          [field |-> "", text |-> <<"\n", "*", "*", "P", "e", "r", "m", "i", "t", " ", "T", "y", "p", "e", ":", "*", "*", " ">>],
          [field |-> "permit_type", text |-> <<>>],
          [field |-> "", text |-> <<"\n">>],
          [field |-> "fee_info", text |-> <<>>],
          [field |-> "", text |-> <<"\n", "*", "*", "A", "p", "p", "l", "i", "c", "a", "t", "i", "o", "n", " ", "P", "r", "o", "c", "e", "s", "s", ":", "*", "*", " ">>],
          [field |-> "process", text |-> <<>>],
          [field |-> "", text |-> <<"\n">>],
          [field |-> "timeline_info", text |-> <<>>],
          [field |-> "", text |-> <<"\n", "\n">>],
          [field |-> "additional_requirements", text |-> <<>>],
          [field |-> "", text |-> <<"\n", "\n", "*", "*", "R", "e", "f", "e", "r", "e", "n", "c", "e", ":", "*", "*", " ">>],
          [field |-> "reference", text |-> <<>>]>>,
     livestock |->
        <<[field |-> "", text |-> <<"*", "*", "L", "i", "v", "e", "s", "t", "o", "c", "k", "/", "A", "n", "i", "m", "a", "l", " ", "R", "e", "g", "u", "l", "a", "t", "i", "o", "n", "s", ":", "*", "*", "\n", "\n", "*", "*", "A", "n", "i", "m", "a", "l", " ", "T", "y", "p", "e", ":", "*", "*", " ">>],
          [field |-> "animal_type", text |-> <<>>],
          [field |-> "", text |-> <<"\n", "*", "*", "A", "l", "l", "o", "w", "e", "d", ":", "*", "*", " ">>],
          [field |-> "allowed", text |-> <<>>],
          [field |-> "", text |-> <<"\n", "*", "*", "Z", "o", "n", "e", ":", "*", "*", " ">>],
          [field |-> "zone", text |-> <<>>],
          [field |-> "", text |-> <<"\n", "*", "*", "M", "i", "n", "i", "m", "u", "m", " ", "L", "o", "t", " ", "S", "i", "z", "e", ":", "*", "*", " ">>],
          [field |-> "min_lot_size", text |-> <<>>],
          [field |-> "", text |-> <<"\n", "*", "*", "M", "a", "x", "i", "m", "u", "m", " ", "N", "u", "m", "b", "e", "r", ":", "*", "*", " ">>],
          [field |-> "max_number", text |-> <<>>],
          [field |-> "", text |-> <<"\n", "\n", "*", "*", "A", "d", "d", "i", "t", "i", "o", "n", "a", "l", " ", "R", "e", "q", "u", "i", "r", "e", "m", "e", "n", "t", "s", ":", "*", "*", "\n">>],
          [field |-> "requirements", text |-> <<>>],
          [field |-> "", text |-> <<"\n", "\n", "*", "*", "R", "e", "f", "e", "r", "e", "n", "c", "e", ":", "*", "*", " ">>],
          [field |-> "reference", text |-> <<>>]>>,
     use |->
        <<[field |-> "", text |-> <<"*", "*", "U", "s", "e", " ", "R", "e", "g", "u", "l", "a", "t", "i", "o", "n", "s", ":", "*", "*", "\n", "\n", "*", "*", "U", "s", "e", " ", "T", "y", "p", "e", ":", "*", "*", " ">>],
          [field |-> "use_type", text |-> <<>>],
          [field |-> "", text |-> <<"\n", "*", "*", "P", "e", "r", "m", "i", "t", "t", "e", "d", ":", "*", "*", " ">>],
          [field |-> "permitted", text |-> <<>>],
          [field |-> "", text |-> <<"\n", "*", "*", "Z", "o", "n", "e", ":", "*", "*", " ">>],
          [field |-> "zone", text |-> <<>>],
          [field |-> "", text |-> <<"\n">>],
          [field |-> "conditions", text |-> <<>>],
          [field |-> "", text |-> <<"\n", "\n", "*", "*", "P", "r", "o", "c", "e", "s", "s", ":", "*", "*", "\n">>],
          [field |-> "process", text |-> <<>>],
          [field |-> "", text |-> <<"\n", "\n", "*", "*", "R", "e", "f", "e", "r", "e", "n", "c", "e", ":", "*", "*", " ">>],
          [field |-> "reference", text |-> <<>>]>>,
     simple |->
        <<[field |-> "", text |-> <<"*", "*", "A", "n", "s", "w", "e", "r", ":", "*", "*", " ">>],
          [field |-> "answer", text |-> <<>>],
          [field |-> "", text |-> <<"\n", "\n", "*", "*", "E", "x", "p", "l", "a", "n", "a", "t", "i", "o", "n", ":", "*", "*", " ">>],
          [field |-> "explanation", text |-> <<>>],
          [field |-> "", text |-> <<"\n", "\n", "*", "*", "R", "e", "f", "e", "r", "e", "n", "c", "e", ":", "*", "*", " ">>],
          [field |-> "reference", text |-> <<>>]>>]

\* w occurs in s at place n
HasAt(s, n, w) == n + Len(w) - 1 <= Len(s) /\ SubSeq(s, n, n + Len(w) - 1) = w

\* \d+ from place n: the last place of the longest run of digits that starts
\* at n, n - 1 if s[n] is no digit
DigitsEnd(s, n) ==
    SetMax({m \in n..Len(s) : \A x \in n..m : s[x] \in Digits} \cup {n - 1})

\* \s* from place n: the first place at or after n that holds no whitespace
SpaceEnd(s, n) ==
    SetMin({m \in n..(Len(s) + 1) : m = Len(s) + 1 \/ s[m] \notin Whitespace})

\* the first of the texts of seq that occurs in s, none if none does
FirstOccurring(s, seq, none) ==
    LET found_at == {n \in 1..Len(seq) : Contains(s, seq[n])}
    IN  IF found_at = {} THEN none ELSE seq[SetMin(found_at)]

\* re.findall(r'Section\s+(\d+-\d+)', answer, re.IGNORECASE): the groups
SectionMatches(answer) ==
    LET lower == StrLower(answer)
        NumberStart(n) == SpaceEnd(answer, n + 7)
        DashAt(n) == DigitsEnd(answer, NumberStart(n)) + 1
        Matches(n) ==
            /\ HasAt(lower, n, <<"s", "e", "c", "t", "i", "o", "n">>)
            /\ NumberStart(n) > n + 7
            /\ DashAt(n) > NumberStart(n)
            /\ DashAt(n) <= Len(answer) /\ answer[DashAt(n)] = "-"
            /\ DigitsEnd(answer, DashAt(n) + 1) > DashAt(n)
    IN  Pick([n \in 1..Len(answer) |->
                 SubSeq(answer, NumberStart(n), DigitsEnd(answer, DashAt(n) + 1))],
             {n \in 1..Len(answer) : Matches(n)})

\* templates.py 261-272
extract_reference(answer) ==
    IF SectionMatches(answer) # <<>>
    THEN <<"S", "e", "c", "t", "i", "o", "n", " ">> \o StrJoin(<<",", " ">>, SectionMatches(answer))
    ELSE <<"S", "e", "e", " ", "L", "o", "u", "d", "o", "u", "n", " ", "C", "o", "u", "n", "t", "y", " ", "Z", "o", "n", "i", "n", "g", " ", "O", "r", "d", "i", "n", "a", "n", "c", "e">>

\* re.search of a pattern made of alternative prefixes followed by \d+, with
\* re.IGNORECASE: the leftmost match, none if there is none
PrefixedNumber(answer, prefixes, none) ==
    LET lower == StrLower(answer)
        Alt(n) == {a \in 1..Len(prefixes) :
                      /\ HasAt(lower, n, prefixes[a])
                      /\ DigitsEnd(answer, n + Len(prefixes[a])) >= n + Len(prefixes[a])}
        starts == {n \in 1..Len(answer) : Alt(n) # {}}
    IN  IF starts = {} THEN none
        ELSE LET n == SetMin(starts)
             IN  SubSeq(answer, n, DigitsEnd(answer, n + Len(prefixes[SetMin(Alt(n))])))

\* templates.py 134-137: (\d+)\s*(?:feet|ft|foot), the first match
DistanceMatch(answer) ==
    LET lower == StrLower(answer)
        starts == {n \in 1..Len(answer) :
                      /\ answer[n] \in Digits
                      /\ \E unit \in {<<"f", "e", "e", "t">>, <<"f", "t">>, <<"f", "o", "o", "t">>} :
                             HasAt(lower, SpaceEnd(answer, DigitsEnd(answer, n) + 1), unit)}
    IN  IF starts = {} THEN <<>>
        ELSE SubSeq(answer, SetMin(starts), DigitsEnd(answer, SetMin(starts)))

\* templates.py 121-161
extract_setback_fields(answer) ==
    LET lower == StrLower(answer)
    IN  [distance |-> IF DistanceMatch(answer) # <<>>
                      THEN DistanceMatch(answer) \o <<" ", "f", "e", "e", "t">>
                      ELSE <<"N", "o", "t", " ", "s", "p", "e", "c", "i", "f", "i", "e", "d">>,
         from_point |-> IF Contains(lower, <<"s", "i", "d", "e">>) THEN <<"s", "i", "d", "e", " ", "p", "r", "o", "p", "e", "r", "t", "y", " ", "l", "i", "n", "e">>
                        ELSE IF Contains(lower, <<"r", "e", "a", "r">>) THEN <<"r", "e", "a", "r", " ", "p", "r", "o", "p", "e", "r", "t", "y", " ", "l", "i", "n", "e">>
                        ELSE IF Contains(lower, <<"f", "r", "o", "n", "t">>) THEN <<"f", "r", "o", "n", "t", " ", "p", "r", "o", "p", "e", "r", "t", "y", " ", "l", "i", "n", "e">>
                        ELSE <<"p", "r", "o", "p", "e", "r", "t", "y", " ", "l", "i", "n", "e">>,
         zone |-> PrefixedNumber(answer, <<<<"a", "r", "-">>, <<"r", "-">>, <<"t", "r", "-">>>>, <<"N", "o", "t", " ", "s", "p", "e", "c", "i", "f", "i", "e", "d">>),
         structure_type |-> IF Contains(lower, <<"s", "h", "e", "d">>) THEN <<"s", "h", "e", "d">>
                            ELSE IF Contains(lower, <<"b", "a", "r", "n">>)
                            THEN <<"b", "a", "r", "n", "/", "a", "g", "r", "i", "c", "u", "l", "t", "u", "r", "a", "l", " ", "s", "t", "r", "u", "c", "t", "u", "r", "e">>
                            ELSE IF Contains(lower, <<"g", "a", "r", "a", "g", "e">>) THEN <<"g", "a", "r", "a", "g", "e">>
                            ELSE <<"a", "c", "c", "e", "s", "s", "o", "r", "y", " ", "s", "t", "r", "u", "c", "t", "u", "r", "e">>,
         additional_notes |-> <<>>,
         reference |-> extract_reference(answer)]

\* templates.py 191-194: \$(\d+), the first match
FeeMatch(answer) ==
    LET starts == {n \in 1..Len(answer) :
                      answer[n] = "$" /\ DigitsEnd(answer, n + 1) > n}
    IN  IF starts = {} THEN <<>>
        ELSE SubSeq(answer, SetMin(starts) + 1, DigitsEnd(answer, SetMin(starts) + 1))

\* templates.py 163-196
extract_permit_fields(answer) ==
    LET lower == StrLower(answer)
    IN  [required |-> IF Contains(lower, <<"n", "o", "t", " ", "r", "e", "q", "u", "i", "r", "e", "d">>) \/ Contains(lower, <<"n", "o", " ", "p", "e", "r", "m", "i", "t">>)
                      THEN <<"N", "o">>
                      ELSE IF Contains(lower, <<"e", "x", "e", "m", "p", "t">>) THEN <<"N", "o", " ", "(", "E", "x", "e", "m", "p", "t", ")">>
                      ELSE <<"Y", "e", "s">>,
         permit_type |-> IF Contains(lower, <<"b", "u", "i", "l", "d", "i", "n", "g", " ", "p", "e", "r", "m", "i", "t">>) THEN <<"B", "u", "i", "l", "d", "i", "n", "g", " ", "P", "e", "r", "m", "i", "t">>
                         ELSE IF Contains(lower, <<"s", "p", "e", "c", "i", "a", "l">>) /\ Contains(lower, <<"p", "e", "r", "m", "i", "t">>)
                         THEN <<"S", "p", "e", "c", "i", "a", "l", " ", "U", "s", "e", " ", "P", "e", "r", "m", "i", "t">>
                         ELSE <<"Z", "o", "n", "i", "n", "g", " ", "P", "e", "r", "m", "i", "t">>,
         fee_info |-> IF FeeMatch(answer) # <<>>
                      THEN <<"*", "*", "F", "e", "e", ":", "*", "*", " ", "$">> \o FeeMatch(answer)
                      ELSE <<>>,
         process |-> <<"S", "u", "b", "m", "i", "t", " ", "a", "p", "p", "l", "i", "c", "a", "t", "i", "o", "n", " ", "t", "o", " ", "P", "l", "a", "n", "n", "i", "n", "g", " ", "D", "e", "p", "a", "r", "t", "m", "e", "n", "t">>,
         timeline_info |-> <<>>,
         additional_requirements |-> <<>>,
         reference |-> extract_reference(answer)]

\* templates.py 225-228: (\d+(?:\.\d+)?)\s*acre, the first match
AcreMatch(answer) ==
    LET lower == StrLower(answer)
        WholeEnd(n) == DigitsEnd(answer, n)
        FractionEnd(n) ==
            IF /\ WholeEnd(n) + 1 <= Len(answer)
               /\ answer[WholeEnd(n) + 1] = "."
               /\ DigitsEnd(answer, WholeEnd(n) + 2) > WholeEnd(n) + 1
            THEN DigitsEnd(answer, WholeEnd(n) + 2)
            ELSE WholeEnd(n)
        AcreAfter(m) == HasAt(lower, SpaceEnd(answer, m + 1), <<"a", "c", "r", "e">>)
        NumberEnd(n) == IF AcreAfter(FractionEnd(n)) THEN FractionEnd(n)
                        ELSE WholeEnd(n)
        starts == {n \in 1..Len(answer) :
                      answer[n] \in Digits /\ AcreAfter(NumberEnd(n))}
    IN  IF starts = {} THEN <<>>
        ELSE SubSeq(answer, SetMin(starts), NumberEnd(SetMin(starts)))

\* templates.py 211
animals == <<<<"c", "h", "i", "c", "k", "e", "n", "s">>, <<"h", "o", "r", "s", "e", "s">>, <<"c", "o", "w", "s">>, <<"g", "o", "a", "t", "s">>, <<"s", "h", "e", "e", "p">>, <<"p", "o", "u", "l", "t", "r", "y">>, <<"l", "i", "v", "e", "s", "t", "o", "c", "k">>>>

\* templates.py 198-236
extract_livestock_fields(answer) ==
    LET lower == StrLower(answer)
    IN  [animal_type |-> IF FirstOccurring(lower, animals, <<>>) # <<>>
                         THEN StrCapitalize(FirstOccurring(lower, animals, <<>>))
                         ELSE <<"N", "o", "t", " ", "s", "p", "e", "c", "i", "f", "i", "e", "d">>,
         allowed |-> IF Contains(lower, <<"p", "e", "r", "m", "i", "t", "t", "e", "d">>) \/ Contains(lower, <<"a", "l", "l", "o", "w", "e", "d">>)
                     THEN <<"Y", "e", "s">>
                     ELSE IF Contains(lower, <<"n", "o", "t", " ", "p", "e", "r", "m", "i", "t", "t", "e", "d">>) \/ Contains(lower, <<"p", "r", "o", "h", "i", "b", "i", "t", "e", "d">>)
                     THEN <<"N", "o">>
                     ELSE <<"C", "h", "e", "c", "k", " ", "r", "e", "g", "u", "l", "a", "t", "i", "o", "n", "s">>,
         zone |-> PrefixedNumber(answer, <<<<"a", "r", "-">>, <<"r", "-">>, <<"a", "-">>>>, <<"N", "o", "t", " ", "s", "p", "e", "c", "i", "f", "i", "e", "d">>),
         min_lot_size |-> IF AcreMatch(answer) # <<>>
                          THEN AcreMatch(answer) \o <<" ", "a", "c", "r", "e", "s">>
                          ELSE <<"N", "o", "t", " ", "s", "p", "e", "c", "i", "f", "i", "e", "d">>,
         max_number |-> <<"N", "o", "t", " ", "s", "p", "e", "c", "i", "f", "i", "e", "d">>,
         requirements |-> <<>>,
         reference |-> extract_reference(answer)]

\* templates.py 238-259
extract_use_fields(answer) ==
    LET lower == StrLower(answer)
    IN  [use_type |-> <<"N", "o", "t", " ", "s", "p", "e", "c", "i", "f", "i", "e", "d">>,
         permitted |-> IF Contains(lower, <<"p", "e", "r", "m", "i", "t", "t", "e", "d", " ", "b", "y", " ", "r", "i", "g", "h", "t">>) THEN <<"Y", "e", "s", " ", "(", "B", "y", " ", "R", "i", "g", "h", "t", ")">>
                       ELSE IF Contains(lower, <<"s", "p", "e", "c", "i", "a", "l", " ", "e", "x", "c", "e", "p", "t", "i", "o", "n">>)
                       THEN <<"Y", "e", "s", " ", "(", "W", "i", "t", "h", " ", "S", "p", "e", "c", "i", "a", "l", " ", "E", "x", "c", "e", "p", "t", "i", "o", "n", ")">>
                       ELSE IF Contains(lower, <<"c", "o", "n", "d", "i", "t", "i", "o", "n", "a", "l", " ", "u", "s", "e">>)
                       THEN <<"Y", "e", "s", " ", "(", "C", "o", "n", "d", "i", "t", "i", "o", "n", "a", "l", ")">>
                       ELSE IF Contains(lower, <<"n", "o", "t", " ", "p", "e", "r", "m", "i", "t", "t", "e", "d">>) THEN <<"N", "o">>
                       ELSE <<"C", "h", "e", "c", "k", " ", "r", "e", "g", "u", "l", "a", "t", "i", "o", "n", "s">>,
         zone |-> <<"N", "o", "t", " ", "s", "p", "e", "c", "i", "f", "i", "e", "d">>,
         conditions |-> <<>>,
         process |-> <<"C", "o", "n", "t", "a", "c", "t", " ", "P", "l", "a", "n", "n", "i", "n", "g", " ", "D", "e", "p", "a", "r", "t", "m", "e", "n", "t">>,
         reference |-> extract_reference(answer)]

\* str.split('\n')
SplitLines(s) ==
    LET breaks == {n \in 1..Len(s) : s[n] = "\n"}
        From(k) == IF k = 1 THEN 1
                   ELSE 1 + CHOOSE n \in breaks :
                                Cardinality({m \in breaks : m < n}) = k - 2
        To(k) == IF k = Cardinality(breaks) + 1 THEN Len(s)
                 ELSE (CHOOSE n \in breaks :
                           Cardinality({m \in breaks : m < n}) = k - 1) - 1
    IN  [k \in 1..(Cardinality(breaks) + 1) |-> SubSeq(s, From(k), To(k))]

\* templates.py 100-119
extract_fields(answer, template_type) ==
    IF template_type = "setback" THEN extract_setback_fields(answer)
    ELSE IF template_type = "permit" THEN extract_permit_fields(answer)
    ELSE IF template_type = "livestock" THEN extract_livestock_fields(answer)
    ELSE IF template_type = "use" THEN extract_use_fields(answer)
    ELSE [answer |-> IF answer # <<>> THEN SplitLines(answer)[1]
                     ELSE <<"S", "e", "e", " ", "e", "x", "p", "l", "a", "n", "a", "t", "i", "o", "n">>,
          explanation |-> answer,
          reference |-> extract_reference(answer)]


\* the result of format_answer
Raised == [status |-> "raised", form |-> "", text |-> <<>>]

\* templates.py 287: c.get('section', 'Unknown'), a citation being a dict
CitedSection(c) == IF "section" \in DOMAIN c THEN c.section ELSE <<"U", "n", "k", "n", "o", "w", "n">>

\* templates.py 286-288: the reference made of citations[:3]
citation_text(citations) ==
    StrJoin(<<",", " ">>,
            [n \in 1..Len(Take(citations, 3)) |->
                <<"S", "e", "c", "t", "i", "o", "n", " ">> \o CitedSection(citations[n])])

\* templates.py 290-308: the template filled with the fields; a placeholder
\* without a field is the KeyError that gives the two-field text
render_template(template_type, answer, fields) ==
    LET format_dict == [k \in DOMAIN fields |->
                           IF StrStrip(fields[k]) = <<>> THEN <<>> ELSE fields[k]]
        parts == templates[template_type]
        KeyError == \E p \in 1..Len(parts) :
                        parts[p].field # "" /\ parts[p].field \notin DOMAIN format_dict
        formatted == Flatten([p \in 1..Len(parts) |->
                                 IF parts[p].field = "" THEN parts[p].text
                                 ELSE format_dict[parts[p].field]])
        all_lines == SplitLines(formatted)
        kept == Pick(all_lines, {n \in 1..Len(all_lines) :
                                    StrStrip(all_lines[n]) # <<>> \/ all_lines[n] = <<>>})
    IN  IF KeyError
        THEN [status |-> "returned", form |-> "fallback",
              text |-> <<"*", "*", "A", "n", "s", "w", "e", "r", ":", "*", "*", " ">> \o answer \o <<"\n", "\n">>
                       \o <<"*", "*", "R", "e", "f", "e", "r", "e", "n", "c", "e", ":", "*", "*", " ">>
                       \o (IF "reference" \in DOMAIN fields THEN fields.reference
                           ELSE <<"S", "e", "e", " ", "Z", "o", "n", "i", "n", "g", " ", "O", "r", "d", "i", "n", "a", "n", "c", "e">>)]
        ELSE [status |-> "returned", form |-> "template",
              text |-> StrJoin(<<"\n">>, kept)]

\* templates.py 279-308: format_answer after the template type is detected.
\* self.templates[template_type] (line 283) is outside the try.
format_as(template_type, answer, citations) ==
    LET extracted == extract_fields(answer, template_type)
        fields == IF citations # <<>>
                  THEN [extracted EXCEPT !.reference = citation_text(citations)]
                  ELSE extracted
    IN  IF template_type \notin DOMAIN templates THEN Raised
        ELSE render_template(template_type, answer, fields)

-----------------------------------------------------------------------------
(***************************************************************************)
(* AnswerFormatter called on its own                                       *)
(***************************************************************************)

fq_coop ==
    <<"H", "o", "w", " ", "f", "a", "r", " ", "m", "u", "s", "t", " ", "a", " ", "c", "h", "i", "c", "k", "e", "n", " ", "c", "o", "o", "p", " ", "b", "e", " ", "f", "r", "o", "m", " ", "t", "h", "e", " ", "r", "o", "a", "d", "?">>

fq_horse ==
    <<"C", "a", "n", " ", "I", " ", "k", "e", "e", "p", " ", "a", " ", "h", "o", "r", "s", "e", "?">>

fq_office ==
    <<"I", "s", " ", "a", " ", "h", "o", "m", "e", " ", "o", "f", "f", "i", "c", "e", " ", "a", " ", "p", "e", "r", "m", "i", "t", "t", "e", "d", " ", "u", "s", "e", " ", "i", "n", " ", "R", "-", "1", "?">>

fq_use ==
    <<"W", "h", "a", "t", " ", "i", "s", " ", "a", " ", "c", "o", "n", "d", "i", "t", "i", "o", "n", "a", "l", " ", "u", "s", "e", "?">>

fq_lot ==
    <<"W", "h", "a", "t", " ", "i", "s", " ", "t", "h", "e", " ", "m", "i", "n", "i", "m", "u", "m", " ", "l", "o", "t", " ", "s", "i", "z", "e", "?">>

fa_empty ==
    <<>>

fa_short ==
    <<"N", "o", "t", " ", "s", "t", "a", "t", "e", "d", ".">>

fa_setback ==
    <<"S", "h", "e", "d", "s", " ", "m", "u", "s", "t", " ", "b", "e", " ", "2", "5", " ", "f", "e", "e", "t", " ", "f", "r", "o", "m", " ", "s", "i", "d", "e", " ", "l", "o", "t", " ", "l", "i", "n", "e", "s", " ", "i", "n", " ", "A", "R", "-", "1", " ", "(", "S", "e", "c", "t", "i", "o", "n", " ", "5", "-", "6", "0", "3", ")", ".">>

fa_permit ==
    <<"N", "o", " ", "p", "e", "r", "m", "i", "t", " ", "i", "s", " ", "r", "e", "q", "u", "i", "r", "e", "d", ";", " ", "t", "h", "e", " ", "f", "e", "e", " ", "i", "s", " ", "$", "5", "0", ".", " ", "S", "e", "e", " ", "S", "e", "c", "t", "i", "o", "n", " ", "6", "-", "1", "0", "1", " ", "a", "n", "d", " ", "s", "e", "c", "t", "i", "o", "n", " ", "6", "-", "1", "0", "2", ".">>

fa_livestock ==
    <<"H", "o", "r", "s", "e", "s", " ", "a", "r", "e", " ", "a", "l", "l", "o", "w", "e", "d", " ", "o", "n", " ", "2", " ", "a", "c", "r", "e", "s", " ", "i", "n", " ", "A", "R", "-", "1", ".", "\n", "S", "e", "e", " ", "S", "e", "c", "t", "i", "o", "n", " ", "5", "-", "1", "0", "2", ".">>

fa_exception ==
    <<"A", " ", "s", "p", "e", "c", "i", "a", "l", " ", "e", "x", "c", "e", "p", "t", "i", "o", "n", " ", "a", "p", "p", "l", "i", "e", "s", ".">>

fa_plain ==
    <<"T", "h", "e", " ", "m", "i", "n", "i", "m", "u", "m", " ", "i", "s", " ", "3", " ", "a", "c", "r", "e", "s", ".", "\n", "\n", "S", "e", "e", " ", "t", "h", "e", " ", "o", "r", "d", "i", "n", "a", "n", "c", "e", ".">>

FmtQuestions == {fq_coop, fq_horse, fq_office, fq_use, fq_lot}

\* raw answers: empty, without any field, and with the fields of each
\* template
FmtAnswers == {fa_empty, fa_short, fa_setback, fa_permit, fa_livestock, fa_exception, fa_plain}

\* the longest list of citations given to format_answer
MaxCited == 4

\* citations: dicts with a section, or without the key
FmtCitations ==
    UNION {[1..n -> {[section |-> <<"5", "-", "6", "0", "3">>, relevance |-> 9], [relevance |-> 6]}]
           : n \in 0..MaxCited}

\* nothing returned yet
NotFormatted == [status |-> "none", form |-> "", text |-> <<>>]

\* format_answer(question, answer, citations) is called
InitFormat ==
    /\ IdleChunk /\ IdleMerge /\ IdleNorm /\ IdleSim /\ IdleEngine /\ IdlePeer
    /\ fmt_question \in FmtQuestions
    /\ fmt_answer \in FmtAnswers
    /\ fmt_citations \in FmtCitations
    /\ fmt_type = ""
    /\ fmt_text = NotFormatted
    /\ fpc = "called"

\* templates.py 277
DetectTemplateType ==
    /\ fpc = "called"
    /\ fmt_type' = detect_template_type(fmt_question, fmt_answer)
    /\ fpc' = "detected"
    /\ UNCHANGED <<fmt_question, fmt_answer, fmt_citations, fmt_text>>
    /\ UNCHANGED <<chunkVars, mergeVars, normVars, simVars, cacheVars,
                   engineVars, peerVars>>

\* templates.py 279-308
FormatAnswer ==
    /\ fpc = "detected"
    /\ fmt_text' = format_as(fmt_type, fmt_answer, fmt_citations)
    /\ fpc' = "done"
    /\ UNCHANGED <<fmt_question, fmt_answer, fmt_citations, fmt_type>>
    /\ UNCHANGED <<chunkVars, mergeVars, normVars, simVars, cacheVars,
                   engineVars, peerVars>>

NextFormat ==
    \/ DetectTemplateType
    \/ FormatAnswer

SpecFormat == InitFormat /\ [][NextFormat]_vars

\* the triggers of a template type
TriggersOf(type) ==
    UNION {template_triggers[n].triggers :
              n \in {m \in 1..Len(template_triggers) :
                        template_triggers[m].template_type = type}}

\* C11: template selection priority. The type detected is setback when a
\* setback trigger occurs in the lower-cased question, space, answer;
\* otherwise permit when a permit trigger occurs; otherwise livestock;
\* otherwise use; and simple when no trigger occurs.
TemplatePriority ==
    fpc # "called" =>
        LET text == StrLower(fmt_question \o <<" ">> \o fmt_answer)
            Occurs(type) == \E t \in TriggersOf(type) : Contains(text, t)
        IN  fmt_type =
                IF Occurs("setback") THEN "setback"
                ELSE IF Occurs("permit") THEN "permit"
                ELSE IF Occurs("livestock") THEN "livestock"
                ELSE IF Occurs("use") THEN "use"
                ELSE "simple"

\* a question with a setback trigger (how far) and a livestock trigger
\* (chicken) resolved to setback
TemplatePriorityWitness ==
    /\ fpc # "called"
    /\ Contains(StrLower(fmt_question), <<"h", "o", "w", " ", "f", "a", "r">>)
    /\ Contains(StrLower(fmt_question), <<"c", "h", "i", "c", "k", "e", "n">>)
    /\ fmt_type = "setback"

-----------------------------------------------------------------------------
(***************************************************************************)
(* More properties of answer_question                                      *)
(***************************************************************************)

\* C12: result record flags. Every record returned has a cached field, True
\* when the answer came from the cache and False otherwise, and a generated
\* record has cached False and chunks_searched the number of passages the
\* context was built from.
ResultFlags ==
    (epc = "done" /\ result.status = "returned") =>
        /\ result.cached \in {"True", "False"}
        /\ result.cached = "True" <=> cached_answer # NoEntry
        /\ (cached_answer = NoEntry /\ result.answer.kind = "formatted") =>
               /\ result.cached = "False"
               /\ result.chunks_searched = Len(found)

-----------------------------------------------------------------------------
(***************************************************************************)
(* Properties of format_answer                                             *)
(***************************************************************************)

\* the placeholders of the template of a type
PlaceholdersOf(type) ==
    {templates[type][p].field : p \in 1..Len(templates[type])} \ {""}

\* C15: formatting never fails. format_answer returns a text for every
\* question, raw answer (the empty one too) and list of citations: either
\* the template of the detected type with every placeholder replaced by its
\* field (the extracted value or the default, the reference being the one
\* made of the citations when there are any), or, when a placeholder has no
\* field, the text made of Answer and Reference only.
FormattingNeverFails ==
    fpc = "done" =>
        /\ fmt_text.status = "returned"
        /\ LET fields == extract_fields(fmt_answer, fmt_type)
               Value(k) == IF k = "reference" /\ fmt_citations # <<>>
                           THEN citation_text(fmt_citations)
                           ELSE fields[k]
           IN  \/ /\ fmt_text.form = "template"
                  /\ PlaceholdersOf(fmt_type) \subseteq DOMAIN fields
                  /\ \A k \in PlaceholdersOf(fmt_type) :
                         Contains(fmt_text.text, Value(k))
                  /\ \A n \in 1..Len(fmt_text.text) : fmt_text.text[n] \notin {"{", "}"}
               \/ /\ fmt_text.form = "fallback"
                  /\ ~(PlaceholdersOf(fmt_type) \subseteq DOMAIN fields)
                  /\ HasAt(fmt_text.text, 1, <<"*", "*", "A", "n", "s", "w", "e", "r", ":", "*", "*", " ">> \o fmt_answer)

\* the empty raw answer formatted with the simple template and its defaults
FormattingNeverFailsWitness ==
    /\ fpc = "done"
    /\ fmt_answer = <<>>
    /\ fmt_type = "simple"
    /\ fmt_text.form = "template"
    /\ Contains(fmt_text.text, <<"*", "*", "A", "n", "s", "w", "e", "r", ":", "*", "*", " ", "S", "e", "e", " ", "e", "x", "p", "l", "a", "n", "a", "t", "i", "o", "n">>)
    /\ Contains(fmt_text.text, <<"S", "e", "e", " ", "L", "o", "u", "d", "o", "u", "n", " ", "C", "o", "u", "n", "t", "y", " ", "Z", "o", "n", "i", "n", "g", " ", "O", "r", "d", "i", "n", "a", "n", "c", "e">>)

-----------------------------------------------------------------------------
(***************************************************************************)
(* The text of the answers of answer_question                              *)
(***************************************************************************)

\* the section labels of the passages and of the curated references, as
\* texts
SectionTexts ==
    [label \in {"5-603", "5-102", "Unknown"} |->
        IF label = "5-603" THEN <<"5", "-", "6", "0", "3">>
        ELSE IF label = "5-102" THEN <<"5", "-", "1", "0", "2">>
        ELSE <<"U", "n", "k", "n", "o", "w", "n">>]

\* the text of a formatted answer: format_answer on the raw answer, with
\* the template detected and the citations it was given (templates.py
\* 274-308)
AnswerText(a) ==
    format_as(a.template, RawAnswers[a.id],
              [n \in 1..Len(a.refs) |-> [section |-> SectionTexts[a.refs[n]]]]).text

\* the step of answer_question that returns a generated answer
GeneratedStep ==
    epc = "generate" /\ epc' = "done" /\ result'.status = "returned"

CollaboratorFailure ==
    [][/\ (epc # "done" /\ epc' = "done" /\ result'.status = "raised") =>
              /\ calls' \in {calls \o <<"embed">>, calls \o <<"embed", "query">>,
                             calls \o <<"generate">>}
              /\ "persist" \notin Range(calls')
              /\ result'.answer = NoAnswer
              /\ result'.citations = <<>>
              /\ UNCHANGED cacheVars
       /\ (epc = "done" /\ result.status = "raised") =>
              /\ epc' = "ready" /\ calls' = <<>>
              /\ UNCHANGED cacheVars]_vars

\* the embedding of the second variation failed after the first search had
\* returned passages: the invocation ended without a record
CollaboratorFailureWitness ==
    /\ epc = "done"
    /\ result.status = "raised"
    /\ searched = 1
    /\ all_results # <<>>
    /\ calls = <<"embed", "query", "embed">>
    /\ result.answer = NoAnswer


-----------------------------------------------------------------------------
(***************************************************************************)
(* Properties of QueryCache over its file                                  *)
(***************************************************************************)

\* what holds of a cache whose file is still the unreadable one
FailedOpen ==
    store.state = "corrupt" =>
        /\ cache = <<>>
        /\ epc = "looked_up" =>
               /\ cached_answer = check_cache(<<>>, question)
               /\ \A n \in CuratedKeysOf(question) : cached_answer = CuratedEntry(n)

\* C16: cache corruption fails open. When the file exists but cannot be
\* parsed at construction, the table starts empty and nothing is raised;
\* every later lookup returns what it returns with an empty dynamic table
\* (a curated key still gives its entry); and the first insert replaces the
\* file by a readable one holding exactly the table, which is the one entry
\* inserted since.
CorruptionFailsOpen ==
    [][/\ FailedOpen
       /\ (store.state = "corrupt" /\ store' # store) =>
              /\ store'.state = "valid"
              /\ store'.content = cache'
              /\ Cardinality(DOMAIN cache') = 1
              /\ \E q \in InsertQuestions, entry \in InsertEntries :
                     cache' = Put(<<>>, get_cache_key(q), entry)]_vars

\* a lookup of the question whose entry lies in the unreadable file: a miss
CorruptionFailsOpenWitness ==
    /\ store.state = "corrupt"
    /\ get_cache_key(q_deck) \in DOMAIN store.content
    /\ epc = "looked_up"
    /\ question = q_deck
    /\ cached_answer = NoEntry


-----------------------------------------------------------------------------
(***************************************************************************)
(* Two QueryCache objects over one cache file: the cache of this process   *)
(* (cache) and the cache of another one (peer_cache), each with its own    *)
(* table, both reading and writing the same file (store)                   *)
(***************************************************************************)

\* the first QueryCache is constructed, the second one not yet
InitWriters == InitCache

\* QueryCache.__init__ in the other process (lines 11-13)
PeerConstruct ==
    /\ peer_pc = "none"
    /\ peer_cache' = load_cache(store)
    /\ peer_pc' = "loaded"
    /\ UNCHANGED <<cacheVars, engineVars, chunkVars, mergeVars, normVars,
                   simVars, fmtVars>>

\* add_to_cache(q, entry) of the other process (lines 315-319, 331-335)
PeerAddToCache(q, entry) ==
    /\ peer_pc = "loaded"
    /\ peer_cache' = Put(peer_cache, get_cache_key(q), entry)
    /\ store' = save_cache(peer_cache')
    /\ UNCHANGED <<cache, peer_pc, engineVars, chunkVars, mergeVars, normVars,
                   simVars, fmtVars>>

NextWriters ==
    \/ \E q \in InsertQuestions, entry \in InsertEntries : AddToCache(q, entry)
    \/ PeerConstruct
    \/ \E q \in InsertQuestions, entry \in InsertEntries : PeerAddToCache(q, entry)

SpecWriters == InitWriters /\ [][NextWriters]_vars

\* the entries of a readable file
Stored(file) == IF file.state = "valid" THEN DOMAIN file.content ELSE {}

\* C17: lost update under concurrent writers. Every write of the file
\* leaves exactly the table of the cache that wrote, the one entry it
\* inserted included and whatever the other cache alone holds excluded; and
\* as long as there is no second cache, a write keeps every entry that the
\* file or the table held before it.
WholeTableWritten ==
    [][store' # store =>
          /\ store'.state = "valid"
          /\ \/ cache' # cache /\ store'.content = cache'
                /\ UNCHANGED peer_cache
             \/ peer_cache' # peer_cache /\ store'.content = peer_cache'
                /\ UNCHANGED cache
             \/ UNCHANGED <<cache, peer_cache>>
                /\ store'.content \in {cache, peer_cache}
          /\ peer_pc = "none" =>
                 /\ Stored(store) \subseteq Stored(store')
                 /\ DOMAIN cache \subseteq Stored(store')]_vars

\* each cache inserted an entry the other never loaded, and the file holds
\* only the entry of the peer
WholeTableWrittenWitness ==
    /\ peer_pc = "loaded"
    /\ store.state = "valid"
    /\ get_cache_key(q_horses) \in DOMAIN cache \ DOMAIN peer_cache
    /\ get_cache_key(q_deck) \in DOMAIN peer_cache \ DOMAIN cache
    /\ DOMAIN store.content = {get_cache_key(q_deck)}


-----------------------------------------------------------------------------
(***************************************************************************)
(* check_cache over a table that holds entries for questions the curated   *)
(* table answers too                                                       *)
(***************************************************************************)

\* a question with the key term of the curated keys 4 and 19, sharing two
\* words with key 19 and one with key 4
q_permit_size == Words(<<w_driveway, w_permit, w_size>>)

\* a question that is a curated key as it stands
q_fence_height == common_qa_table[17].key

\* looked up: an exact key, a question similar to two keys, a question
\* similar to one key with its words in another order, and questions the
\* curated table does not answer
OrderLookups ==
    {q_fence_height, q_permit_size, Words(<<w_barn, w_setback>>), q_deck,
     q_horses, Words(<<w_beekeeping, w_permit, w_fence>>)}

\* given to add_to_cache, which takes any question
OrderInserts == {q_fence_height, q_permit_size, q_deck, q_horses}

InitLookup == InitCache

NextLookup ==
    \/ \E q \in OrderLookups : CheckCache(q)
    \/ \E q \in OrderInserts, entry \in InsertEntries : AddToCache(q, entry)

SpecLookup == InitLookup /\ [][NextLookup]_vars

\* the places of the curated keys that is_similar_query accepts for q
SimilarKeysOf(q) ==
    {n \in CuratedIds : is_similar_query(normalize_query(q), common_qa_table[n].key)}

\* the number of words of the key at place n that are words of q
SharedWords(q, n) ==
    Cardinality(Range(StrSplit(normalize_query(q)))
                    \cap Range(StrSplit(common_qa_table[n].key)))

\* answer is what the order of check_cache gives for q over the table
FollowsOrder(q, answer, table) ==
    LET exact_ids == CuratedKeysOf(q)
        similar_ids == SimilarKeysOf(q)
        key == get_cache_key(q)
    IN  /\ exact_ids # {} => \A n \in exact_ids : answer = CuratedEntry(n)
        /\ (exact_ids = {} /\ similar_ids # {}) =>
               /\ answer.kind = "curated"
               /\ answer.id \in similar_ids
               /\ \A n \in similar_ids : answer.id <= n
        /\ (exact_ids = {} /\ similar_ids = {} /\ key \in DOMAIN table) =>
               answer = table[key]
        /\ (exact_ids = {} /\ similar_ids = {} /\ key \notin DOMAIN table) =>
               answer = NoEntry
        /\ (exact_ids # {} \/ similar_ids # {}) => answer.kind # "dynamic"

-----------------------------------------------------------------------------
(***************************************************************************)
(* One invocation of answer_question for a question with more than three   *)
(* variations, over a county with more passages than top_k                 *)
(***************************************************************************)

\* not answered by the cache; create_focused_query gives four variations
q_barn == Words(<<w_barn, w_setback, w_permit>>)

RetrieveQuestions == {q_barn, q_deck_asked}

RetrieveCounties == {"loudoun", "clarke", "frederick", "fairfax"}

\* the query of the next call of search in search_multiple_queries
NextQuery ==
    IF epc = "search" /\ searched < Len(Searchable(query_variations))
    THEN Searchable(query_variations)[searched + 1]
    ELSE question

InitRetrieve == InitEngine

\* the steps of one invocation
NextRetrieve ==
    \/ \E q \in RetrieveQuestions, c \in RetrieveCounties :
           asks = 0 /\ AnswerQuestion(q, c)
    \/ \E outcome \in SearchOutcomesTo(county, NextQuery, question) :
           SearchVariant(outcome)
    \/ \E outcome \in SearchOutcomesTo(county, question, question) :
           Fallback(outcome)
    \/ GenerateFails
    \/ \E raw \in 1..Len(RawAnswers) : Generate(raw)

SpecRetrieve == InitRetrieve /\ [][NextRetrieve]_vars


\* every result the search of a county can return
HitsOf(c) == UNION {{Hit(p, d) : d \in p.distances} : p \in Index(c)}

\* results is nearest first, at most top_k long, without two results of one
\* fingerprint, and made of results of the pool
FusedShape(results, pool) ==
    /\ \A a, b \in 1..Len(results) :
           a < b => results[a].distance <= results[b].distance
    /\ Len(results) <= TopK
    /\ \A a, b \in 1..Len(results) :
           a < b => chunk_id(results[a]) # chunk_id(results[b])
    /\ Range(results) \subseteq Range(pool)

\* C19: fused result shape. The list search_multiple_queries returns is
\* sorted by non-decreasing distance, has at most top_k passages, has no two
\* passages with the same fingerprint of their first 100 characters, and
\* holds only passages of the pool; and the pool grows only in a step that
\* searches one of the first 3 variants, by results of the county searched.
FusedResultShape ==
    [][/\ (epc = "search" /\ epc' \in {"fallback", "generate"}) =>
              FusedShape(found', all_results')
       /\ all_results' # all_results =>
              \/ /\ epc = "search"
                 /\ searched' = searched + 1
                 /\ searched' <= MaxVariations
                 /\ searches' = Append(searches, query_variations[searched'])
                 /\ Range(all_results') \subseteq Range(all_results) \cup HitsOf(county)
              \/ epc = "done" /\ all_results' = <<>>]_vars

\* three of four variations were searched; the pool has six passages, not
\* in the order of their distances, and the five nearest are returned
FusedResultShapeWitness ==
    /\ epc = "generate"
    /\ Len(query_variations) = 4
    /\ searched = 3
    /\ Len(all_results) = 6
    /\ all_results # SortByDistance(all_results)
    /\ found = Take(SortByDistance(all_results), TopK)
    /\ Len(found) = TopK


\* how many times op occurs in the log
CallsOf(op, log) == Cardinality({n \in 1..Len(log) : log[n] = op})

\* C20: retrieval fan-out. In an invocation that is not served from the
\* cache the queries searched are, in order, the first 3 variations of
\* create_focused_query (the first being the question itself), followed by
\* the question once more exactly when the pool of the variations came out
\* empty; so there are at most 4 searches, each with one embedding call and
\* at most one vector query.
RetrievalFanOut ==
    IF query_variations = <<>>
    THEN searches = <<>> /\ CallsOf("query", calls) = 0
    ELSE LET first == Take(query_variations, MaxVariations)
         IN  /\ query_variations[1] = question
             /\ Len(searches) <= Len(first) + 1
             /\ \A n \in 1..Len(searches) :
                    searches[n] = IF n <= Len(first) THEN query_variations[n]
                                  ELSE question
             /\ Len(searches) = Len(first) + 1 =>
                    searched = Len(first) /\ all_results = <<>>
             /\ (/\ all_results = <<>>
                 /\ \/ epc = "generate"
                    \/ epc = "done" /\ result.status # "raised") =>
                    Len(searches) = Len(first) + 1
             /\ epc = "fallback" => Len(searches) = Len(first) /\ all_results = <<>>
             /\ Len(searches) <= 4
             /\ CallsOf("embed", calls) = Len(searches)
             /\ CallsOf("query", calls) <= Len(searches)

\* four variations; the searches of the first three found nothing and the
\* fourth search, of the question, found the passages handed to generation
RetrievalFanOutWitness ==
    /\ epc = "generate"
    /\ Len(query_variations) = 4
    /\ searches = Take(query_variations, MaxVariations) \o <<question>>
    /\ all_results = <<>>
    /\ found # <<>>
    /\ CallsOf("query", calls) = 4


-----------------------------------------------------------------------------
(***************************************************************************)
(* QueryExpander.create_focused_query called on its own                    *)
(***************************************************************************)

\* questions of two and three words that name structures, animals and zones
ExpandQuestions ==
    LET heads == {w_shed, w_barn, w_pool, w_livestock, w_chickens, w_ar1}
        mids == {w_setback, w_permit, w_regulations}
        tails == {w_requirements, w_limit, w_ar1}
    IN  {Words(<<a, b>>) : a \in heads, b \in mids}
        \cup {Words(<<a, b, c>>) : a \in heads, b \in mids, c \in tails}

\* the caller holds a question
InitExpand ==
    /\ IdleChunk /\ IdleMerge /\ IdleNorm /\ IdleSim /\ IdleFmt /\ IdlePeer
    /\ cache = <<>>
    /\ store = [state |-> "absent", content |-> <<>>]
    /\ question \in ExpandQuestions
    /\ county = ""
    /\ cached_answer = NoEntry
    /\ query_variations = <<>>
    /\ searched = 0
    /\ all_results = <<>>
    /\ seen_chunks = {}
    /\ searches = <<>>
    /\ found = <<>>
    /\ result = NoResult
    /\ calls = <<>>
    /\ epc = "asked"
    /\ asks = 0

\* create_focused_query(question), lines 164-195
CreateFocusedQuery ==
    /\ epc = "asked"
    /\ query_variations' = create_focused_query(question)
    /\ epc' = "expanded"
    /\ UNCHANGED <<cacheVars, question, county, cached_answer, searched,
                   all_results, seen_chunks, searches, found, result, calls, asks>>
    /\ UNCHANGED <<chunkVars, mergeVars, normVars, simVars, fmtVars, peerVars>>

NextExpand == CreateFocusedQuery

SpecExpand == InitExpand /\ [][NextExpand]_vars

\* C21: variant list. The list create_focused_query returned starts with
\* the question and holds no string twice.
VariantList ==
    epc = "expanded" =>
        /\ query_variations # <<>>
        /\ query_variations[1] = question
        /\ \A a, b \in 1..Len(query_variations) :
               a < b => query_variations[a] # query_variations[b]


-----------------------------------------------------------------------------
(***************************************************************************)
(* The reference and the blank lines of the text format_answer returns     *)
(***************************************************************************)

\* the last characters of s are w
EndsWith(s, w) ==
    Len(s) >= Len(w) /\ SubSeq(s, Len(s) - Len(w) + 1, Len(s)) = w

ReferenceLabel == <<"*", "*", "R", "e", "f", "e", "r", "e", "n", "c", "e", ":", "*", "*", " ">>

\* the section labels of the citations
LabelsOf(citations) == {CitedSection(citations[n]) : n \in 1..Len(citations)}

\* every list of at most 3 of these labels that repeats none
DistinctLabelLists(labels) ==
    UNION {{l \in [1..n -> labels] : \A a, b \in 1..n : a < b => l[a] # l[b]}
           : n \in 1..3}

\* the reference written for a list of labels
ReferenceOf(labels) ==
    StrJoin(<<",", " ">>,
            [n \in 1..Len(labels) |->
                <<"S", "e", "c", "t", "i", "o", "n", " ">> \o labels[n]])

\* C22: reference override. The text format_answer returned for a non-empty
\* list of citations ends with the reference made of the section labels of
\* at most 3 of the citations, comma-joined, no label twice; for an empty
\* list it ends with the reference extracted from the raw answer.
ReferenceOverride ==
    (fpc = "done" /\ fmt_text.status = "returned") =>
        IF fmt_citations # <<>>
        THEN \E labels \in DistinctLabelLists(LabelsOf(fmt_citations)) :
                 EndsWith(fmt_text.text, ReferenceLabel \o ReferenceOf(labels))
        ELSE EndsWith(fmt_text.text,
                      ReferenceLabel
                          \o extract_fields(fmt_answer, fmt_type).reference)


\* C23: blank-line collapsing. The text format_answer returned has no two
\* consecutive blank lines: a field left blank gives an empty string, and
\* the blank lines this leaves are collapsed.
BlankLinesCollapsed ==
    (fpc = "done" /\ fmt_text.status = "returned") =>
        LET out == SplitLines(fmt_text.text)
        IN  \A n \in 1..(Len(out) - 1) :
                ~(StrStrip(out[n]) = <<>> /\ StrStrip(out[n + 1]) = <<>>)


-----------------------------------------------------------------------------
(***************************************************************************)
(* More properties of answer_question over several invocations             *)
(***************************************************************************)

\* C24: citations on a cache hit. A record returned with cached = True has
\* the answer of the entry found and, for a curated entry, one citation
\* whose section is the entry's reference; for a dynamic entry, whose
\* answer was formatted with the sections it cited, the citations name
\* those sections and are not empty when the answer cited a section.
CacheHitCitations ==
    (epc = "done" /\ result.status = "returned" /\ result.cached = "True") =>
        IF cached_answer.has_details
        THEN result.citations =
                 <<[section |-> cached_answer.reference, relevance |-> -1]>>
        ELSE /\ result.answer = cached_answer.answer
             /\ result.answer.refs # <<>> =>
                    /\ result.citations # <<>>
                    /\ \A n \in 1..Len(result.citations) :
                           result.citations[n].section \in Range(result.answer.refs)


-----------------------------------------------------------------------------
(***************************************************************************)
(* More properties of merge_related_chunks                                 *)
(***************************************************************************)

\* C25: single-pass merge. The chunks appended so far are, in order, the
\* input chunks before i, each text once: an output chunk is one input
\* chunk unchanged, kept alone because it is the last one or fails the
\* merge test with its successor, or the merge of two adjacent input chunks
\* that pass the test; the test is made on input chunks only, so a merged
\* pair is never merged again.
SinglePassMerge ==
    /\ Flatten([k \in 1..Len(merged) |-> merged[k].parts])
           = [n \in 1..(IF mpc = "idle" THEN 0 ELSE i - 1) |-> n]
    /\ \A k \in 1..Len(merged) :
           LET first == merged[k].parts[1]
           IN  \/ /\ merged[k].parts = <<first>>
                  /\ merged[k].section = in_chunks[first].section
                  /\ merged[k].tokens = in_chunks[first].tokens
                  /\ first < Len(in_chunks) =>
                         \/ in_chunks[first].section # in_chunks[first + 1].section
                         \/ in_chunks[first].tokens + in_chunks[first + 1].tokens
                                >= MergeLimit
               \/ /\ merged[k].parts = <<first, first + 1>>
                  /\ in_chunks[first].section = in_chunks[first + 1].section
                  /\ in_chunks[first].tokens + in_chunks[first + 1].tokens
                         < MergeLimit

\* three chunks of one section: the first two are merged and the third is
\* returned alone, although it has the section of the pair and the three
\* together stay under the limit
SinglePassMergeWitness ==
    /\ mpc = "done"
    /\ Len(in_chunks) = 3
    /\ Len(merged) = 2
    /\ merged[1].parts = <<1, 2>>
    /\ merged[2].parts = <<3>>
    /\ merged[1].section = merged[2].section
    /\ merged[1].tokens + merged[2].tokens < MergeLimit


\* the places of op in the log
PlacesOf(op, log) == {n \in 1..Len(log) : log[n] = op}

\* the order of the calls logged so far in the current invocation
OrderedCalls ==
    /\ calls # <<>> => cached_answer = NoEntry /\ query_variations # <<>>
    /\ \A n \in PlacesOf("query", calls) : n > 1 /\ calls[n - 1] = "embed"
    /\ Cardinality(PlacesOf("generate", calls)) <= 1
    /\ \A n \in PlacesOf("generate", calls) :
           /\ n > 1 /\ calls[n - 1] = "query"
           /\ \A m \in 1..(n - 1) : calls[m] \in {"embed", "query"}
           /\ found # <<>>
    /\ \A n \in PlacesOf("persist", calls) :
           /\ n = Len(calls) /\ n > 1 /\ calls[n - 1] = "generate"
           /\ epc = "done" /\ result.status = "returned"

\* C26: call ordering within one invocation. The cache is looked up while
\* no external call has been made; the generation call is made at most
\* once, after embedding and vector-search calls only and with at least
\* one passage retrieved; the cache and its file are written only
\* in the step in which generation returns, after the generation call; the
\* calls are made one after the other.
CallOrdering ==
    [][/\ OrderedCalls
       /\ (epc = "ready" /\ epc' # "ready") =>
              /\ calls = <<>> /\ calls' = <<>>
              /\ cached_answer' = check_cache(cache, question')
       /\ cacheVars' # cacheVars =>
              /\ epc = "generate" /\ epc' = "done"
              /\ calls' = calls \o <<"generate", "persist">>
              /\ result'.status = "returned"]_vars

\* three variations and the fallback searched, then generation, then the
\* write of the cache
CallOrderingWitness ==
    /\ epc = "done"
    /\ calls = <<"embed", "query", "embed", "query", "embed", "query",
                 "embed", "query", "generate", "persist">>
    /\ result.status = "returned"
    /\ get_cache_key(question) \in DOMAIN cache


\* C27: a repeated question is served from the cache. A generated answer
\* whose raw text is longer than 50 characters is stored, as returned, under
\* the normalized question; an entry of the table is never changed or
\* dropped afterwards; and an invocation for a question whose normalized
\* form has an entry ends at once with cached = True, the answer of that
\* entry, and no embedding, vector-search or generation call.
RepeatServedFromCache ==
    [][/\ (epc = "generate" /\ epc' = "done" /\ result'.status = "returned"
           /\ Len(RawAnswers[result'.answer.id]) > 50) =>
              /\ normalize_query(question) \in DOMAIN cache'
              /\ cache'[normalize_query(question)].answer = result'.answer
              /\ ~cache'[normalize_query(question)].has_details
       /\ \A k \in DOMAIN cache : k \in DOMAIN cache' /\ cache'[k] = cache[k]
       /\ (epc = "ready" /\ epc' # "ready"
           /\ normalize_query(question') \in DOMAIN cache) =>
              /\ epc' = "done"
              /\ result'.status = "returned"
              /\ result'.cached = "True"
              /\ result'.answer = cache[normalize_query(question')].answer
              /\ calls' = <<>>]_vars

\* the second invocation returns, from the cache, the answer generated by
\* the first one
RepeatServedFromCacheWitness ==
    /\ epc = "done"
    /\ asks = 2
    /\ question = q_deck
    /\ result.cached = "True"
    /\ result.answer.kind = "formatted"
    /\ result.answer.id = 3
    /\ result.answer.refs # <<>>
    /\ calls = <<>>


-----------------------------------------------------------------------------
(***************************************************************************)
(* One engine whose cache is also written directly (engine.cache is a      *)
(* public attribute): invocations of answer_question and calls of          *)
(* add_to_cache between them                                               *)
(***************************************************************************)

InitMirror == InitEngine

\* self.cache.add_to_cache(q, entry) while no invocation runs
\* (cache.py 315-319, 331-335)
Insert(q, entry) ==
    /\ epc = "ready"
    /\ cache' = Put(cache, get_cache_key(q), entry)
    /\ store' = save_cache(cache')
    /\ UNCHANGED <<engineVars, chunkVars, mergeVars, normVars, simVars, fmtVars,
                   peerVars>>

NextMirror ==
    \/ \E entry \in InsertEntries : Insert(q_horses, entry)
    \/ \E c \in Counties : AnswerQuestion(q_deck_asked, c)
    \/ \E outcome \in SearchOutcomes(county) : SearchVariant(outcome)
    \/ \E outcome \in SearchOutcomes(county) : Fallback(outcome)
    \/ GenerateFails
    \/ \E raw \in 1..Len(RawAnswers) : Generate(raw)
    \/ Return

SpecMirror == InitMirror /\ [][NextMirror]_vars

\* the tables differ at most in the entry of one key, which the second has
OneEntryPut(before, after) ==
    /\ DOMAIN before \subseteq DOMAIN after
    /\ Cardinality(DOMAIN after \ DOMAIN before) <= 1
    /\ Cardinality({k \in DOMAIN before : after[k] # before[k]}
                   \cup (DOMAIN after \ DOMAIN before)) = 1

\* C28: the file mirrors the table (one writer). A step that changes the
\* table or the file is an add_to_cache: it puts one entry into the table
\* (a new key, or the new entry in the place of the one of that key), keeps
\* every other entry, loaded or inserted, and leaves in the file exactly
\* the table. The lookup, the searches, a failed invocation and the return
\* change neither; the curated table is the same in every state.
StoreMirrorsTable ==
    [][/\ cacheVars' # cacheVars =>
              /\ OneEntryPut(cache, cache')
              /\ store' = [state |-> "valid", content |-> cache']
              /\ \/ epc = "ready" /\ epc' = "ready"
                 \/ epc = "generate" /\ result'.status = "returned"
       /\ (\/ epc = "ready" /\ epc' # "ready"
           \/ epc \in {"search", "fallback", "done"}
           \/ result'.status = "raised") => UNCHANGED cacheVars
       /\ store.state = "valid" => store.content = cache
       /\ store.state # "valid" => cache = <<>>]_vars

\* after an insert and a lookup that hit, the table holds the entry loaded
\* at construction and the entry inserted since, and the file holds the same
StoreMirrorsTableWitness ==
    /\ epc = "done"
    /\ result.cached = "True"
    /\ store = [state |-> "valid", content |-> cache]
    /\ DOMAIN cache = {get_cache_key(q_deck), get_cache_key(q_horses)}
    /\ cache[get_cache_key(q_deck)].answer.id = 1
    /\ cache[get_cache_key(q_horses)] \in InsertEntries


-----------------------------------------------------------------------------
(***************************************************************************)
(* The copies kept by search_multiple_queries                              *)
(***************************************************************************)

\* C29: first seen wins in fusion. A search adds to the pool only chunks
\* whose fingerprint no earlier search of the invocation returned, and
\* leaves every chunk of the pool as it is, distance included; the fused
\* result is the pool sorted by these distances. So a passage returned for
\* several variations is ranked by the distance of the first one.
FirstSeenWins ==
    [][/\ (epc = "search" /\ all_results' # all_results) =>
              /\ Len(all_results') > Len(all_results)
              /\ SubSeq(all_results', 1, Len(all_results)) = all_results
              /\ \A n \in (Len(all_results) + 1)..Len(all_results') :
                     chunk_id(all_results'[n]) \notin seen_chunks
       /\ epc = "search" =>
              /\ seen_chunks \subseteq seen_chunks'
              /\ {chunk_id(all_results'[n]) : n \in 1..Len(all_results')}
                     \subseteq seen_chunks'
              /\ \A a, b \in 1..Len(all_results') :
                     a < b => chunk_id(all_results'[a]) # chunk_id(all_results'[b])
       /\ (epc = "search" /\ epc' \in {"fallback", "generate"}) =>
              found' = Take(SortByDistance(all_results'), TopK)]_vars

\* in frederick the question itself finds passage 22 at distance 2 and
\* passage 21 at distance 4, and the two later variations find passage 21 at
\* distance 1: passage 21 stays second, with distance 4
FirstSeenWinsWitness ==
    /\ county = "frederick"
    /\ epc = "generate"
    /\ searched = 3
    /\ Len(found) = 2
    /\ found[1].text = 22 /\ found[1].distance = 2
    /\ found[2].text = 21 /\ found[2].distance = 4
    /\ SurveyResponse(query_variations[2], question)[1].text = 21
    /\ SurveyResponse(query_variations[2], question)[1].distance = 1


-----------------------------------------------------------------------------
(***************************************************************************)
(* The cache and the county argument                                       *)
(***************************************************************************)

\* C30: the cache is not scoped by jurisdiction. Every key of the table is
\* a normalized question and nothing else; an invocation looks the question
\* up whatever the county, and on a hit returns cached = True and the
\* answer of the entry found, curated or generated for any county, without
\* a search; a generated answer is stored under the normalized question
\* alone.
CacheIgnoresCounty ==
    [][/\ \A k \in DOMAIN cache : \E q \in Questions : k = normalize_query(q)
       /\ (epc = "ready" /\ epc' # "ready") =>
              /\ cached_answer' = check_cache(cache, question')
              /\ cached_answer' # NoEntry =>
                     /\ epc' = "done"
                     /\ result'.cached = "True"
                     /\ result'.county = county'
                     /\ result'.answer =
                            IF cached_answer'.has_details
                            THEN format_cached_answer(cached_answer')
                            ELSE cached_answer'.answer
                     /\ calls' = <<>>
       /\ cache' # cache =>
              DOMAIN cache' = DOMAIN cache \cup {normalize_query(question)}]_vars

\* an answer that cites a section, which only the passages of loudoun
\* have, is returned from the cache to the county without passages
CacheIgnoresCountyWitness ==
    /\ epc = "done"
    /\ asks = 2
    /\ county = "fairfax"
    /\ Index(county) = {}
    /\ result.cached = "True"
    /\ result.answer.kind = "formatted"
    /\ result.answer.id = 3
    /\ "5-603" \in Range(result.answer.refs)
    /\ calls = <<>>

=============================================================================
